---- MODULE Spec2Model ----
(***************************************************************************)
(* PIMFast: role-status reconciliation (useRoleTableQueries), the Azure    *)
(* resource-id parser (parseResourceId), the portal URL functions and the  *)
(* tenant resolution of ResolvedTenantName.                                *)
(*                                                                         *)
(* Optional JavaScript values are sequences: <<>> is undefined, <<v>> is   *)
(* the value v.  A string is kept as the sequence of its pieces between    *)
(* "/" characters (String.prototype.split('/')), so "/tenants/a" is        *)
(* <<"", "tenants", "a">>.                                                 *)
(***************************************************************************)
EXTENDS Integers, Sequences, FiniteSets, TLC

VARIABLES
    eligibleRoles,        \* eligibleRolesQuery.data
    roleAssignments,      \* roleAssignmentsQuery.data
    roleStatus,           \* roleStatusQuery.data, lookup keyed by role.id
    roleStatusByAccount,  \* roleStatusQuery.data of the revision keyed by role.accountId
    now,                  \* the clock read by dayjs(), in milliseconds
    resourceId,           \* the argument of parseResourceId
    parsed,               \* what parseResourceId returned or threw
    portalUrl,            \* the URL handed to getResourceIdFromPortalUrl
    scopeType,            \* the scopeType argument of getAzurePortalUrl
    extracted,            \* what getResourceIdFromPortalUrl returned or threw
    tenantsQuery,         \* data of the query ['pim', 'tenants', account]: a reference into heap
    heap,                 \* the lookup objects the tenants query has produced, by reference
    subscriptionCache,    \* subscriptionCache[account.homeAccountId] of the caching revision
    calls,                \* remote calls issued so far, by kind
    resolution,           \* the running queryFn of each ['pim', 'tenant', account, schedule] query
    signedIn,             \* the accounts in the MSAL cache (client.getAllAccounts())
    tenantCache,          \* tenantCache[account.homeAccountId] of common/subscriptions.ts
    pimClient,            \* the module-level pimClient of the ARM PIM module
    sessionStorage,       \* chrome.storage.session, by key
    inflight,             \* list calls that have been sent and not answered
    served,               \* what the last call returned, and to whom
    eligibleRolesQueries, \* armEligibleRolesQuery, graphEligibleRolesQuery, groupEligibleRolesQuery
    roleAssignmentsQueries, \* armRoleAssignmentsQuery, graphRoleAssignmentsQuery, groupRoleAssignmentsQuery
    raised,               \* the failures the data sources raised, and in which resolution
    providerRecord,       \* the record a provider returned, and the normalizer it goes to
    normalized,           \* what the normalizer returned for it
    posted,               \* the requests posted to assignmentScheduleRequests, in order
    cells,                \* the action cells as last rendered: per role id, whether the button is disabled
    sent,                 \* what each click on an action button did, with the time of the click
    loginPromise,         \* the module-level loginPromise (with resolveLogin and rejectLogin): a promise, or null
    promises,             \* the login promises created so far, each pending, resolved or rejected
    logins                \* the calls of login(): where each is, what it returned, and its redirect flow

portalVars == <<portalUrl, scopeType, extracted>>

tenantVars == <<tenantsQuery, heap, subscriptionCache, calls, resolution>>

sessionVars == <<signedIn, tenantCache, pimClient, sessionStorage, inflight, served>>

providerVars == <<eligibleRolesQueries, roleAssignmentsQueries>>

upstreamVars == <<raised>>

normalizeVars == <<providerRecord, normalized>>

actionVars == <<posted, cells, sent>>

loginVars == <<loginPromise, promises, logins>>

vars == <<eligibleRoles, roleAssignments, roleStatus, roleStatusByAccount, now, resourceId, parsed,
          portalVars, tenantVars, sessionVars, providerVars, upstreamVars, normalizeVars, actionVars, loginVars>>

\* login() has not been called
LoginUnused == loginPromise = <<>> /\ promises = <<>> /\ logins = <<>>

\* nothing has been rendered, clicked or posted
ActionsUnused == posted = <<>> /\ cells = <<>> /\ sent = <<>>

\* no provider record has been received
NormalizeUnused == providerRecord = <<>> /\ normalized = <<>>

\* no data source has failed
UpstreamUnused == raised = <<>>

\* the per-provider queries have not been created
ProvidersUnused ==
    /\ eligibleRolesQueries = <<>>
    /\ roleAssignmentsQueries = <<>>

\* no account has signed in and no module-level cache has been used
SessionUnused ==
    /\ signedIn = <<>>
    /\ tenantCache = <<>>
    /\ pimClient = <<>>
    /\ sessionStorage = <<>>
    /\ inflight = <<>>
    /\ served = <<>>

\* no portal URL has been built or read
PortalUnused == portalUrl = <<>> /\ scopeType = <<>> /\ extracted = <<>>

\* no tenant query has run
TenantUnused ==
    /\ tenantsQuery = <<>>
    /\ heap = <<>>
    /\ subscriptionCache = <<>>
    /\ calls = <<>>
    /\ resolution = <<>>

\* ------------------------------------------------------------------ bounds

MaxRoles == 2
MaxAssignments == 2

\* ------------------------------------------------------------------ values

Undefined == <<>>
Some(v) == <<v>>

Accounts == {"A1", "A2"}
SourceTypes == {"arm", "graph", "group"}
ScheduleIds == {"E1", "E2"}
RoleDefinitionIds == {"R1", "R2"}
Scopes == {"S1", "S2"}
PrincipalIds == {"P1", "P2"}

\* KnownStatus.Provisioned of @azure/arm-authorization
KnownStatusProvisioned == "Provisioned"

StartTime == 600 * 1000
\* the instants at which the clock is read: the start, 4m59s, 5m00s and 5m01s after it
Instants == <<StartTime, StartTime + 299 * 1000, StartTime + 300 * 1000, StartTime + 301 * 1000>>

SeqsUpTo(S, n) == UNION {[1..k -> S] : k \in 0..n}

CommonRoleSchedule(sid, src, rd, sc, p) ==
    [id |-> sid, sourceType |-> src, roleDefinitionId |-> rd, scope |-> sc, principalId |-> p]

\* the id the eligible-role queries build: `${account.homeAccountId}-${sourceType}-${commonSchedule.id}`
EligibleRoleId(account, schedule) == <<account, schedule.sourceType, schedule.id>>

EligibleRole(account, schedule) ==
    [id |-> EligibleRoleId(account, schedule), accountId |-> account, schedule |-> schedule]

CommonRoleAssignmentScheduleInstance(src, rd, sc, p, linked, status, start) ==
    [sourceType |-> src, roleDefinitionId |-> rd, scope |-> sc, principalId |-> p,
     linkedRoleEligibilityScheduleInstanceId |-> linked, status |-> status, startDateTime |-> start]

\* ------------------------------------------------------------------ reconcile

\* mutant: every source joined on the triple, the arm link ignored
matchesRoleTripleOnly(role, assignment) ==
    /\ role.schedule.sourceType = assignment.sourceType
    /\ assignment.roleDefinitionId = role.schedule.roleDefinitionId
    /\ assignment.scope = role.schedule.scope
    /\ assignment.principalId = role.schedule.principalId

\* mutant: the triple compared without the principal
matchesRoleNoPrincipal(role, assignment) ==
    IF role.schedule.sourceType = "arm" /\ assignment.sourceType = "arm"
    THEN assignment.linkedRoleEligibilityScheduleInstanceId = Some(role.schedule.id)
    ELSE IF role.schedule.sourceType = assignment.sourceType
    THEN /\ assignment.roleDefinitionId = role.schedule.roleDefinitionId
         /\ assignment.scope = role.schedule.scope
    ELSE FALSE

\* the predicate handed to roleAssignments.find for one eligible role
matchesRole(role, assignment) ==
    IF role.schedule.sourceType = "arm" /\ assignment.sourceType = "arm"
    THEN assignment.linkedRoleEligibilityScheduleInstanceId = Some(role.schedule.id)
    ELSE IF role.schedule.sourceType = assignment.sourceType
    THEN /\ assignment.roleDefinitionId = role.schedule.roleDefinitionId
         /\ assignment.scope = role.schedule.scope
         /\ assignment.principalId = role.schedule.principalId
    ELSE FALSE

\* mutant: findLast in place of find
matchingAssignmentLast(role, assignments) ==
    LET hits == {i \in 1..Len(assignments) : matchesRole(role, assignments[i])}
    IN  IF hits = {} THEN Undefined
        ELSE Some(assignments[CHOOSE i \in hits : \A j \in hits : i >= j])

\* Array.prototype.find: the first element satisfying the predicate, or undefined
matchingAssignment(role, assignments) ==
    LET hits == {i \in 1..Len(assignments) : matchesRole(role, assignments[i])}
    IN  IF hits = {} THEN Undefined
        ELSE Some(assignments[CHOOSE i \in hits : \A j \in hits : i <= j])

\* the for-loop of roleStatusQuery.queryFn: the entry of each role is written under the role's
\* keyField; a later role with the same key overwrites an earlier one
RECURSIVE buildLookup(_, _, _, _)
buildLookup(roles, assignments, keyField, acc) ==
    IF roles = <<>> THEN acc
    ELSE LET role == Head(roles)
             k == role[keyField]
             entry == matchingAssignment(role, assignments)
             next == [x \in (DOMAIN acc) \cup {k} |-> IF x = k THEN entry ELSE acc[x]]
         IN  buildLookup(Tail(roles), assignments, keyField, next)

EmptyLookup == [x \in {} |-> Undefined]

\* roleToStatusLookup[role.id] = matchingAssignment
roleToStatusLookup(roles, assignments) == buildLookup(roles, assignments, "id", EmptyLookup)

\* roleToStatusLookup[role.accountId] = matchingAssignment
roleToStatusLookupByAccount(roles, assignments) == buildLookup(roles, assignments, "accountId", EmptyLookup)

\* obj[key] on a plain object: undefined for a missing key
Read(lookup, k) == IF k \in DOMAIN lookup THEN lookup[k] ELSE Undefined

\* ------------------------------------------------------------------ predicates

AZURE_PIM_MIN_ACTIVATION_TIME == 5

MillisecondsPerMinute == 60 * 1000

\* dayjs(a).diff(b, 'minutes'): the millisecond difference over 60000, truncated toward zero
diffMinutes(a, b) ==
    LET d == a - b
    IN  IF d < 0 THEN 0 - ((0 - d) \div MillisecondsPerMinute) ELSE d \div MillisecondsPerMinute

\* mutant: every source compared with KnownStatus.Provisioned
statusIsActiveProvisionedOnly(assignment) == assignment.status = KnownStatusProvisioned

statusIsActive(assignment) ==
    IF assignment.sourceType = "arm"
    THEN assignment.status = KnownStatusProvisioned
    ELSE assignment.status = "Activated" \/ assignment.status = "Active"

isEligibleRoleActivated(role) ==
    IF roleStatus = Undefined THEN FALSE
    ELSE LET assignment == Read(roleStatus[1], role.id)
         IN  IF assignment = Undefined THEN FALSE
             ELSE statusIsActive(assignment[1])

\* mutant: <= in place of <
isEligibleRoleNewlyActivatedInclusive(role) ==
    IF roleStatus = Undefined THEN FALSE
    ELSE LET assignment == Read(roleStatus[1], role.id)
         IN  IF assignment = Undefined THEN FALSE
             ELSE IF assignment[1].startDateTime = Undefined THEN FALSE
             ELSE diffMinutes(now, assignment[1].startDateTime[1]) <= AZURE_PIM_MIN_ACTIVATION_TIME

isEligibleRoleNewlyActivated(role) ==
    IF roleStatus = Undefined THEN FALSE
    ELSE LET assignment == Read(roleStatus[1], role.id)
         IN  IF assignment = Undefined THEN FALSE
             ELSE IF assignment[1].startDateTime = Undefined THEN FALSE
             ELSE diffMinutes(now, assignment[1].startDateTime[1]) < AZURE_PIM_MIN_ACTIVATION_TIME

\* ------------------------------------------------------------------ provider data

\* the triple every eligible role of the model carries
RoleTriple == <<"R1", "S1", "P1">>

\* the role triple with at most one of its three fields changed
NearTriples ==
    {t \in RoleDefinitionIds \X Scopes \X PrincipalIds :
        Cardinality({i \in 1..3 : t[i] # RoleTriple[i]}) <= 1}

RoleUniverse ==
    {EligibleRole(a, CommonRoleSchedule(sid, src, RoleTriple[1], RoleTriple[2], RoleTriple[3])) :
        a \in Accounts, src \in SourceTypes, sid \in ScheduleIds}

\* ARM assignments carry a link to their eligibility instance; Graph and group ones never do
JoinAssignmentUniverse ==
    {CommonRoleAssignmentScheduleInstance("arm", RoleTriple[1], RoleTriple[2], RoleTriple[3],
                                          linked, KnownStatusProvisioned, Undefined) :
        linked \in {Undefined} \cup {Some(sid) : sid \in ScheduleIds}}
    \cup
    {CommonRoleAssignmentScheduleInstance(src, t[1], t[2], t[3], Undefined, "Activated", Undefined) :
        src \in {"graph", "group"}, t \in NearTriples}

\* a provider never returns the same schedule instance twice: role lists hold distinct roles,
\* in the order of a fixed enumeration
RECURSIVE SetToSeq(_)
SetToSeq(S) ==
    IF S = {} THEN <<>>
    ELSE LET x == CHOOSE y \in S : TRUE IN <<x>> \o SetToSeq(S \ {x})

RoleLists(universe) == {SetToSeq(S) : S \in {T \in SUBSET universe : Cardinality(T) <= MaxRoles}}

\* every assignment instance has its own id: the i-th instance of a list is instance i
WithIds(list) == [i \in DOMAIN list |-> [id |-> i] @@ list[i]]

AssignmentLists(universe) == {WithIds(l) : l \in SeqsUpTo(universe, MaxAssignments)}

EligibleRoleLists == RoleLists(RoleUniverse)

JoinAssignmentLists == AssignmentLists(JoinAssignmentUniverse)

\* a list without its i-th element
Without(list, i) == SubSeq(list, 1, i - 1) \o SubSeq(list, i + 1, Len(list))

\* ------------------------------------------------------------------ actions

\* the eligible-role queries settle for the first time
FetchEligibleRoles ==
    /\ eligibleRoles = Undefined
    /\ \E roles \in EligibleRoleLists : eligibleRoles' = Some(roles)
    /\ UNCHANGED <<roleAssignments, roleStatus, roleStatusByAccount, now, resourceId, parsed, portalVars, tenantVars, sessionVars, providerVars, upstreamVars, normalizeVars, actionVars, loginVars>>

\* the assignment queries settle for the first time
FetchRoleAssignments ==
    /\ roleAssignments = Undefined
    /\ \E assignments \in JoinAssignmentLists : roleAssignments' = Some(assignments)
    /\ UNCHANGED <<eligibleRoles, roleStatus, roleStatusByAccount, now, resourceId, parsed, portalVars, tenantVars, sessionVars, providerVars, upstreamVars, normalizeVars, actionVars, loginVars>>

\* mutant: the status query keeps its data when the assignments change
RefetchRoleAssignmentsKeepingLookup ==
    /\ roleAssignments # Undefined
    /\ \E i \in 1..Len(roleAssignments[1]) : roleAssignments' = Some(Without(roleAssignments[1], i))
    /\ UNCHANGED <<eligibleRoles, roleStatus, roleStatusByAccount, now, resourceId, parsed, portalVars, tenantVars, sessionVars, providerVars, upstreamVars, normalizeVars, actionVars, loginVars>>

\* a refetch (refetchInterval, refresh) after an assignment instance ended upstream: the data is
\* replaced wholesale, and the status query, whose key holds the data, has no data under the new key
RefetchRoleAssignments ==
    /\ roleAssignments # Undefined
    /\ \E i \in 1..Len(roleAssignments[1]) : roleAssignments' = Some(Without(roleAssignments[1], i))
    /\ roleStatus' = Undefined
    /\ UNCHANGED <<eligibleRoles, roleStatusByAccount, now, resourceId, parsed, portalVars, tenantVars, sessionVars, providerVars, upstreamVars, normalizeVars, actionVars, loginVars>>

\* a refetch after an eligibility instance ended upstream
RefetchEligibleRoles ==
    /\ eligibleRoles # Undefined
    /\ \E i \in 1..Len(eligibleRoles[1]) : eligibleRoles' = Some(Without(eligibleRoles[1], i))
    /\ roleStatus' = Undefined
    /\ UNCHANGED <<roleAssignments, roleStatusByAccount, now, resourceId, parsed, portalVars, tenantVars, sessionVars, providerVars, upstreamVars, normalizeVars, actionVars, loginVars>>

\* roleStatusQuery.queryFn, enabled once both inputs are there
Reconcile ==
    /\ eligibleRoles # Undefined
    /\ roleAssignments # Undefined
    /\ roleStatus' = Some(roleToStatusLookup(eligibleRoles[1], roleAssignments[1]))
    /\ UNCHANGED <<eligibleRoles, roleAssignments, roleStatusByAccount, now, resourceId, parsed, portalVars, tenantVars, sessionVars, providerVars, upstreamVars, normalizeVars, actionVars, loginVars>>

Init ==
    /\ LoginUnused
    /\ ActionsUnused
    /\ NormalizeUnused
    /\ UpstreamUnused
    /\ ProvidersUnused
    /\ SessionUnused
    /\ eligibleRoles = Undefined
    /\ roleAssignments = Undefined
    /\ roleStatus = Undefined
    /\ roleStatusByAccount = Undefined
    /\ now = Instants[1]
    /\ resourceId = <<>>
    /\ parsed = Undefined
    /\ PortalUnused
    /\ TenantUnused

Next ==
    \/ FetchEligibleRoles
    \/ FetchRoleAssignments
    \/ RefetchEligibleRoles
    \/ RefetchRoleAssignments
    \/ Reconcile

Spec == Init /\ [][Next]_vars

\* ------------------------------------------------------------------ the revision keyed by accountId

\* an eligible role of that revision: { accountId, schedule }
EligibleRoleOfAccount(account, schedule) == [accountId |-> account, schedule |-> schedule]

RoleUniverseByAccount ==
    {EligibleRoleOfAccount(a, CommonRoleSchedule(sid, src, RoleTriple[1], RoleTriple[2], RoleTriple[3])) :
        a \in Accounts, src \in SourceTypes, sid \in ScheduleIds}

EligibleRoleListsByAccount == RoleLists(RoleUniverseByAccount)

\* the per-account eligible-role queries settle and eligibleRolesQuery combines them
FetchEligibleRolesByAccount ==
    /\ eligibleRoles = Undefined
    /\ \E roles \in EligibleRoleListsByAccount : eligibleRoles' = Some(roles)
    /\ UNCHANGED <<roleAssignments, roleStatus, roleStatusByAccount, now, resourceId, parsed, portalVars, tenantVars, sessionVars, providerVars, upstreamVars, normalizeVars, actionVars, loginVars>>

\* roleAssignmentsQuery of that revision is a placeholder that returns []
FetchRoleAssignmentsPlaceholder ==
    /\ roleAssignments = Undefined
    /\ roleAssignments' = Some(<<>>)
    /\ UNCHANGED <<eligibleRoles, roleStatus, roleStatusByAccount, now, resourceId, parsed, portalVars, tenantVars, sessionVars, providerVars, upstreamVars, normalizeVars, actionVars, loginVars>>

\* roleStatusQuery.queryFn of that revision
ReconcileByAccount ==
    /\ eligibleRoles # Undefined
    /\ roleAssignments # Undefined
    /\ roleStatusByAccount' = Some(roleToStatusLookupByAccount(eligibleRoles[1], roleAssignments[1]))
    /\ UNCHANGED <<eligibleRoles, roleAssignments, roleStatus, now, resourceId, parsed, portalVars, tenantVars, sessionVars, providerVars, upstreamVars, normalizeVars, actionVars, loginVars>>

NextByAccount ==
    \/ FetchEligibleRolesByAccount
    \/ FetchRoleAssignmentsPlaceholder
    \/ ReconcileByAccount

SpecByAccount == Init /\ [][NextByAccount]_vars

\* ------------------------------------------------------------------ status and clock

\* one eligible role per source, each of account A1 and schedule E1
StatusRoleUniverse ==
    {EligibleRole("A1", CommonRoleSchedule("E1", src, RoleTriple[1], RoleTriple[2], RoleTriple[3])) :
        src \in {"arm", "graph"}}

Statuses == {KnownStatusProvisioned, "Activated", "Active", "Assigned"}

\* assignments that all satisfy the join rule of the role of their source, of every status,
\* with and without a start time
StatusAssignmentUniverse ==
    {CommonRoleAssignmentScheduleInstance(src, RoleTriple[1], RoleTriple[2], RoleTriple[3],
                                          IF src = "arm" THEN Some("E1") ELSE Undefined, status, start) :
        src \in {"arm", "graph"}, status \in Statuses, start \in {Undefined, Some(StartTime)}}

StatusRoleLists == RoleLists(StatusRoleUniverse)

StatusAssignmentLists == AssignmentLists(StatusAssignmentUniverse)

FetchEligibleRolesWithStatus ==
    /\ eligibleRoles = Undefined
    /\ \E roles \in StatusRoleLists : eligibleRoles' = Some(roles)
    /\ UNCHANGED <<roleAssignments, roleStatus, roleStatusByAccount, now, resourceId, parsed, portalVars, tenantVars, sessionVars, providerVars, upstreamVars, normalizeVars, actionVars, loginVars>>

FetchRoleAssignmentsWithStatus ==
    /\ roleAssignments = Undefined
    /\ \E assignments \in StatusAssignmentLists : roleAssignments' = Some(assignments)
    /\ UNCHANGED <<eligibleRoles, roleStatus, roleStatusByAccount, now, resourceId, parsed, portalVars, tenantVars, sessionVars, providerVars, upstreamVars, normalizeVars, actionVars, loginVars>>

\* time passes: the clock moves to the next instant at which it is read
Tick ==
    /\ \E i \in 1..(Len(Instants) - 1) : now = Instants[i] /\ now' = Instants[i + 1]
    /\ UNCHANGED <<eligibleRoles, roleAssignments, roleStatus, roleStatusByAccount, resourceId, parsed, portalVars, tenantVars, sessionVars, providerVars, upstreamVars, normalizeVars, actionVars, loginVars>>

NextStatus ==
    \/ FetchEligibleRolesWithStatus
    \/ FetchRoleAssignmentsWithStatus
    \/ RefetchEligibleRoles
    \/ RefetchRoleAssignments
    \/ Reconcile
    \/ Tick

SpecStatus == Init /\ [][NextStatus]_vars

\* ------------------------------------------------------------------ parseResourceId

MaxFreeSegments == 3

\* [^/]+ : one piece between slashes, not empty
Segment(x) == x # ""

\* the six regular expressions, in the order of the patterns array; ^ and $ pin the number of
\* pieces, the leading "/" makes the first piece empty
patterns == <<"Tenant", "ManagementGroup", "Subscription", "ResourceGroup", "Resource", "ChildResource">>

\* mutant: the subscription and resource-group expressions without their closing $
regexMatchesUnanchored(pattern, s) ==
    CASE pattern = "Tenant" ->
            Len(s) = 3 /\ s[1] = "" /\ s[2] = "tenants" /\ Segment(s[3])
      [] pattern = "ManagementGroup" ->
            /\ Len(s) = 5 /\ s[1] = "" /\ s[2] = "providers" /\ s[3] = "Microsoft.Management"
            /\ s[4] = "managementGroups" /\ Segment(s[5])
      [] pattern = "Subscription" ->
            Len(s) >= 3 /\ s[1] = "" /\ s[2] = "subscriptions" /\ Segment(s[3])
      [] pattern = "ResourceGroup" ->
            /\ Len(s) >= 5 /\ s[1] = "" /\ s[2] = "subscriptions" /\ Segment(s[3])
            /\ s[4] = "resourceGroups" /\ Segment(s[5])
      [] pattern = "Resource" ->
            /\ Len(s) = 9 /\ s[1] = "" /\ s[2] = "subscriptions" /\ Segment(s[3])
            /\ s[4] = "resourceGroups" /\ Segment(s[5]) /\ s[6] = "providers"
            /\ Segment(s[7]) /\ Segment(s[8]) /\ Segment(s[9])
      [] pattern = "ChildResource" ->
            /\ Len(s) = 11 /\ s[1] = "" /\ s[2] = "subscriptions" /\ Segment(s[3])
            /\ s[4] = "resourceGroups" /\ Segment(s[5]) /\ s[6] = "providers"
            /\ Segment(s[7]) /\ Segment(s[8]) /\ Segment(s[9]) /\ Segment(s[10]) /\ Segment(s[11])

regexMatches(pattern, s) ==
    CASE pattern = "Tenant" ->
            Len(s) = 3 /\ s[1] = "" /\ s[2] = "tenants" /\ Segment(s[3])
      [] pattern = "ManagementGroup" ->
            /\ Len(s) = 5 /\ s[1] = "" /\ s[2] = "providers" /\ s[3] = "Microsoft.Management"
            /\ s[4] = "managementGroups" /\ Segment(s[5])
      [] pattern = "Subscription" ->
            Len(s) = 3 /\ s[1] = "" /\ s[2] = "subscriptions" /\ Segment(s[3])
      [] pattern = "ResourceGroup" ->
            /\ Len(s) = 5 /\ s[1] = "" /\ s[2] = "subscriptions" /\ Segment(s[3])
            /\ s[4] = "resourceGroups" /\ Segment(s[5])
      [] pattern = "Resource" ->
            /\ Len(s) = 9 /\ s[1] = "" /\ s[2] = "subscriptions" /\ Segment(s[3])
            /\ s[4] = "resourceGroups" /\ Segment(s[5]) /\ s[6] = "providers"
            /\ Segment(s[7]) /\ Segment(s[8]) /\ Segment(s[9])
      [] pattern = "ChildResource" ->
            /\ Len(s) = 11 /\ s[1] = "" /\ s[2] = "subscriptions" /\ Segment(s[3])
            /\ s[4] = "resourceGroups" /\ Segment(s[5]) /\ s[6] = "providers"
            /\ Segment(s[7]) /\ Segment(s[8]) /\ Segment(s[9]) /\ Segment(s[10]) /\ Segment(s[11])

\* mutant: the resource handlers hand type and resourceGroup to the constructor in each other's place
handlerSwapped(pattern, s) ==
    CASE pattern = "Tenant" -> [class |-> "TenantId", resourceId |-> s, id |-> s[3]]
      [] pattern = "ManagementGroup" -> [class |-> "ManagementGroupId", resourceId |-> s, id |-> s[5]]
      [] pattern = "Subscription" -> [class |-> "SubscriptionId", resourceId |-> s, id |-> s[3]]
      [] pattern = "ResourceGroup" ->
            [class |-> "ResourceGroupId", resourceId |-> s, id |-> s[5], subscription |-> s[3]]
      [] pattern = "Resource" ->
            [class |-> "ResourceId", resourceId |-> s, id |-> s[9], subscription |-> s[3],
             provider |-> s[7], type |-> s[5], resourceGroup |-> s[8]]
      [] pattern = "ChildResource" ->
            [class |-> "ChildResourceId", resourceId |-> s, id |-> s[11], subscription |-> s[3],
             provider |-> s[7], type |-> s[5], resourceGroup |-> s[8], parentResource |-> s[9]]

\* the handlers: the object each one constructs from the named groups of its match
handler(pattern, s) ==
    CASE pattern = "Tenant" -> [class |-> "TenantId", resourceId |-> s, id |-> s[3]]
      [] pattern = "ManagementGroup" -> [class |-> "ManagementGroupId", resourceId |-> s, id |-> s[5]]
      [] pattern = "Subscription" -> [class |-> "SubscriptionId", resourceId |-> s, id |-> s[3]]
      [] pattern = "ResourceGroup" ->
            [class |-> "ResourceGroupId", resourceId |-> s, id |-> s[5], subscription |-> s[3]]
      [] pattern = "Resource" ->
            [class |-> "ResourceId", resourceId |-> s, id |-> s[9], subscription |-> s[3],
             provider |-> s[7], type |-> s[8], resourceGroup |-> s[5]]
      [] pattern = "ChildResource" ->
            [class |-> "ChildResourceId", resourceId |-> s, id |-> s[11], subscription |-> s[3],
             provider |-> s[7], type |-> s[8], resourceGroup |-> s[5], parentResource |-> s[9]]

Returned(value) == [threw |-> FALSE, value |-> value]
Threw(error) == [threw |-> TRUE, error |-> error]

\* new Error(`${resourceId} is not a valid Azure Resource ID. Supported formats: ...`)
NotValidError(s) ==
    [name |-> "Error", message |-> <<s, " is not a valid Azure Resource ID. Supported formats: tenant, management group, subscription, resource group, resource, child resource.">>]

\* the loop over the patterns, tried in the given order: the first match wins, no match throws
RECURSIVE parseInOrder(_, _)
parseInOrder(order, s) ==
    IF order = <<>> THEN Threw(NotValidError(s))
    ELSE IF regexMatches(Head(order), s) THEN Returned(handler(Head(order), s))
    ELSE parseInOrder(Tail(order), s)

\* mutant: a string that matches no pattern yields undefined instead of an exception
parseResourceIdLenient(s) ==
    IF \E i \in 1..Len(patterns) : regexMatches(patterns[i], s)
    THEN parseInOrder(patterns, s)
    ELSE Returned(Undefined)

parseResourceId(s) == parseInOrder(patterns, s)

\* ------------------------------------------------------------------ scope strings

Names == {"a", "b"}

Keywords == {"tenants", "providers", "Microsoft.Management", "managementGroups", "subscriptions", "resourceGroups"}

\* the pieces strings are made of: names, the keywords of the grammar, a keyword in another
\* case, and the empty piece (two slashes in a row, or a slash at either end)
Tokens == Names \cup Keywords \cup {"resourcegroups", ""}

\* the valid scope strings of the six grammar forms over the names
ValidScopes ==
    {<<"", "tenants", t>> : t \in Names}
    \cup {<<"", "providers", "Microsoft.Management", "managementGroups", g>> : g \in Names}
    \cup {<<"", "subscriptions", sub>> : sub \in Names}
    \cup {<<"", "subscriptions", sub, "resourceGroups", rg>> : sub \in Names, rg \in Names}
    \cup {<<"", "subscriptions", sub, "resourceGroups", rg, "providers", x[1], x[2], x[3]>> :
            sub \in Names, rg \in Names, x \in Names \X Names \X Names}
    \cup {<<"", "subscriptions", sub, "resourceGroups", rg, "providers", x[1], x[2], x[3], x[4], x[5]>> :
            sub \in Names, rg \in Names, x \in Names \X Names \X Names \X Names \X Names}

\* a valid scope string with one piece replaced, one piece removed, or one piece appended
NearScopes ==
    UNION {{[s EXCEPT ![i] = t] : i \in 1..Len(s), t \in Tokens} : s \in ValidScopes}
    \cup UNION {{Without(s, i) : i \in 1..Len(s)} : s \in ValidScopes}
    \cup {Append(s, t) : s \in ValidScopes, t \in Tokens}

\* every string of at most MaxFreeSegments pieces; no string splits into zero pieces
FreeStrings == SeqsUpTo(Tokens, MaxFreeSegments) \ {<<>>}

ScopeInputs == ValidScopes \cup NearScopes \cup FreeStrings

\* ------------------------------------------------------------------ parser actions

InitParse ==
    /\ LoginUnused
    /\ ActionsUnused
    /\ NormalizeUnused
    /\ UpstreamUnused
    /\ ProvidersUnused
    /\ SessionUnused
    /\ eligibleRoles = Undefined
    /\ roleAssignments = Undefined
    /\ roleStatus = Undefined
    /\ roleStatusByAccount = Undefined
    /\ now = Instants[1]
    /\ resourceId \in ScopeInputs
    /\ parsed = Undefined
    /\ PortalUnused
    /\ TenantUnused

\* one call of parseResourceId(resourceId)
ParseResourceId ==
    /\ parsed = Undefined
    /\ parsed' = Some(parseResourceId(resourceId))
    /\ UNCHANGED <<eligibleRoles, roleAssignments, roleStatus, roleStatusByAccount, now, resourceId, portalVars, tenantVars, sessionVars, providerVars, upstreamVars, normalizeVars, actionVars, loginVars>>

NextParse == ParseResourceId

SpecParse == InitParse /\ [][NextParse]_vars

\* ------------------------------------------------------------------ portal URLs

MaxViews == 2

\* `${a}${b}` on strings kept as pieces: the last piece of a and the first piece of b join
Concat(a, b) == SubSeq(a, 1, Len(a) - 1) \o <<a[Len(a)] \o b[1]>> \o Tail(b)

\* 'https://portal.azure.com/#@/resource'
baseUrl == <<"https:", "", "portal.azure.com", "#@", "resource">>

\* 'https://portal.azure.com/#view/Microsoft_Azure_ManagementGroups/ManagementGroupDrilldownMenuBlade/~/overview/mgId/'
managementGroupUrl ==
    <<"https:", "", "portal.azure.com", "#view", "Microsoft_Azure_ManagementGroups",
      "ManagementGroupDrilldownMenuBlade", "~", "overview", "mgId", "">>

getAzurePortalUrl(scope, type) ==
    IF type = Some("managementgroup")
    THEN Concat(managementGroupUrl, <<scope[Len(scope)]>>)
    ELSE Concat(baseUrl, scope)

\* new URL(portalUrl) accepts a scheme, "//" and a host; anything else is a TypeError
isUrl(u) == Len(u) >= 3 /\ u[1] = "https:" /\ u[2] = "" /\ u[3] # ""

hostname(u) == u[3]

\* the pieces a fragment can begin with: they hold the "#"
HashHeads == {"#@", "#@t1", "#view"}

\* url.hash: from the "#" to the end, the empty string when there is none
hash(u) ==
    LET starts == {i \in 4..Len(u) : u[i] \in HashHeads}
    IN  IF starts = {} THEN <<"">>
        ELSE SubSeq(u, CHOOSE i \in starts : \A j \in starts : i <= j, Len(u))

\* #@(?<tenant>[^/]+)? ends the piece it is in
TenantMarkers == {"#@", "#@t1"}

\* hash.match(/#@(?<tenant>[^/]+)?\/resource(?<resourceId>\/.+)\/[^/]+?$/): the resourceId group
\* of the leftmost match, undefined for null.  After the marker and "resource" the greedy .+
\* takes every piece but the last, which [^/]+?$ needs for itself and needs not empty.
resourceIdMatch(h) ==
    LET ok(i) ==
            /\ h[i] \in TenantMarkers
            /\ h[i + 1] = "resource"
            /\ Len(h) - (i + 1) >= 2
            /\ h[Len(h)] # ""
            /\ ~(Len(h) - (i + 1) = 2 /\ h[i + 2] = "")
        matches == {i \in 1..(Len(h) - 1) : ok(i)}
    IN  IF matches = {} THEN Undefined
        ELSE LET i == CHOOSE k \in matches : \A j \in matches : k <= j
             IN  Some(<<"">> \o SubSeq(h, i + 2, Len(h) - 1))

PortalError(text) == [name |-> "Error", message |-> <<text>>]

\* the TypeError of new URL()
InvalidUrlError == [name |-> "TypeError", message |-> <<"Invalid URL">>]

\* if (!resourceId) throw ...; return resourceId
extractedOrThrow(candidate) ==
    IF candidate = Undefined \/ candidate[1] = <<"">>
    THEN Threw(PortalError("Unable to extract resource ID from portal URL"))
    ELSE Returned(candidate[1])

\* the inner try/catch: the extracted path if it parses, else parts[0] of its split on "/"
validateOrRetry(resourceIdBase) ==
    IF ~parseResourceId(resourceIdBase).threw
    THEN extractedOrThrow(Some(resourceIdBase))
    ELSE LET parts == resourceIdBase
         IN  IF Len(parts) > 1
             THEN IF parseResourceId(<<parts[1]>>).threw
                  THEN parseResourceId(<<parts[1]>>)
                  ELSE extractedOrThrow(Some(<<parts[1]>>))
             ELSE extractedOrThrow(Undefined)

\* the body of the outer try
extractResourceId(u) ==
    IF ~isUrl(u) THEN Threw(InvalidUrlError)
    ELSE IF hostname(u) # "portal.azure.com"
    THEN Threw(PortalError("Does not begin with portal.azure.com"))
    ELSE IF resourceIdMatch(hash(u)) = Undefined
    THEN Threw(PortalError("Could not extract base resource ID from url"))
    ELSE validateOrRetry(resourceIdMatch(hash(u))[1])

\* new Error(`Invalid Azure portal URL ${portalUrl}: ${error.message}`)
InvalidPortalUrlError(u, error) ==
    [name |-> "Error", message |-> <<"Invalid Azure portal URL ", u, ": ", error.message>>]

\* mutant: the rethrown error leaves the cause out of its message
getResourceIdFromPortalUrlNoCause(u) ==
    IF extractResourceId(u).threw
    THEN Threw(InvalidPortalUrlError(u, [message |-> <<>>]))
    ELSE extractResourceId(u)

getResourceIdFromPortalUrl(u) ==
    IF extractResourceId(u).threw
    THEN Threw(InvalidPortalUrlError(u, extractResourceId(u).error))
    ELSE extractResourceId(u)

\* ------------------------------------------------------------------ portal URL actions

ScopeTypes == {Undefined, Some("subscription"), Some("resourcegroup"), Some("managementgroup")}

\* the view names the portal appends to the address of a resource
Views == {"overview", "users"}

\* addresses of other pages: another host, the portal without a fragment, the portal with a
\* tenant in the marker, and text that is no URL
OtherUrls ==
    {<<"https:", "", "example.com", "#@", "resource", "subscriptions", "a", "overview">>,
     <<"https:", "", "portal.azure.com">>,
     <<"https:", "", "portal.azure.com", "">>,
     <<"https:", "", "portal.azure.com", "#@t1", "resource", "subscriptions", "a", "overview">>,
     <<"https:", "", "portal.azure.com", "#@", "resource", "", "overview">>,
     <<"https:", "", "portal.azure.com", "#@", "resource", "subscriptions", "a", "">>,
     <<"portal.azure.com", "#@", "resource", "subscriptions", "a", "overview">>}

InitPortal ==
    /\ LoginUnused
    /\ ActionsUnused
    /\ NormalizeUnused
    /\ UpstreamUnused
    /\ ProvidersUnused
    /\ SessionUnused
    /\ eligibleRoles = Undefined
    /\ roleAssignments = Undefined
    /\ roleStatus = Undefined
    /\ roleStatusByAccount = Undefined
    /\ now = Instants[1]
    /\ resourceId \in ValidScopes
    /\ parsed = Undefined
    /\ portalUrl = Undefined
    /\ scopeType \in ScopeTypes
    /\ extracted = Undefined
    /\ TenantUnused

\* the link of a role row: getAzurePortalUrl(schedule.scope, schedule.scopeType)
GetAzurePortalUrl ==
    /\ portalUrl = Undefined
    /\ portalUrl' = Some(getAzurePortalUrl(resourceId, scopeType))
    /\ UNCHANGED <<eligibleRoles, roleAssignments, roleStatus, roleStatusByAccount, now, resourceId,
                   parsed, scopeType, extracted, tenantVars, sessionVars, providerVars, upstreamVars, normalizeVars, actionVars, loginVars>>

\* the browser moves to a view of the page the link opened
OpenView ==
    /\ portalUrl # Undefined
    /\ extracted = Undefined
    /\ Len(portalUrl[1]) >= Len(getAzurePortalUrl(resourceId, scopeType))
    /\ Len(portalUrl[1]) < Len(getAzurePortalUrl(resourceId, scopeType)) + MaxViews
    /\ SubSeq(portalUrl[1], 1, Len(getAzurePortalUrl(resourceId, scopeType)))
            = getAzurePortalUrl(resourceId, scopeType)
    /\ \E v \in Views : portalUrl' = Some(Append(portalUrl[1], v))
    /\ UNCHANGED <<eligibleRoles, roleAssignments, roleStatus, roleStatusByAccount, now, resourceId,
                   parsed, scopeType, extracted, tenantVars, sessionVars, providerVars, upstreamVars, normalizeVars, actionVars, loginVars>>

\* the browser shows some other page
OpenOtherUrl ==
    /\ portalUrl = Undefined
    /\ \E u \in OtherUrls : portalUrl' = Some(u)
    /\ UNCHANGED <<eligibleRoles, roleAssignments, roleStatus, roleStatusByAccount, now, resourceId,
                   parsed, scopeType, extracted, tenantVars, sessionVars, providerVars, upstreamVars, normalizeVars, actionVars, loginVars>>

\* getResourceIdFromPortalUrl(currentTab.url)
GetResourceIdFromPortalUrl ==
    /\ portalUrl # Undefined
    /\ extracted = Undefined
    /\ extracted' = Some(getResourceIdFromPortalUrl(portalUrl[1]))
    /\ UNCHANGED <<eligibleRoles, roleAssignments, roleStatus, roleStatusByAccount, now, resourceId,
                   parsed, portalUrl, scopeType, tenantVars, sessionVars, providerVars, upstreamVars, normalizeVars, actionVars, loginVars>>

NextPortal ==
    \/ GetAzurePortalUrl
    \/ OpenView
    \/ OpenOtherUrl
    \/ GetResourceIdFromPortalUrl

SpecPortal == InitPortal /\ [][NextPortal]_vars

\* ------------------------------------------------------------------ tenant resolution: data

MaxTenantFetches == 2

\* getAccountByLocalId: the AccountInfo of the signed-in accounts, with their home tenants
AccountInfos ==
    [A1 |-> [localAccountId |-> "A1", homeAccountId |-> "A1", tenantId |-> "T0"],
     A2 |-> [localAccountId |-> "A2", homeAccountId |-> "A2", tenantId |-> "T1"]]

getAccountByLocalId(id) == AccountInfos[id]

\* what client.tenants.list() yields for each account
RemoteTenants ==
    [A1 |-> <<[tenantId |-> "T0", displayName |-> "Home", defaultDomain |-> "home.example"]>>,
     A2 |-> <<[tenantId |-> "T1", displayName |-> "Contoso", defaultDomain |-> "contoso.example"]>>]

\* what client.subscriptions.list() yields for each account: A1 reads a subscription of its
\* home tenant and one of a foreign tenant, A2 cannot read subscription a
RemoteSubscriptions ==
    [A1 |-> <<[subscriptionId |-> "a", tenantId |-> Some("T0")],
              [subscriptionId |-> "b", tenantId |-> Some("T1")]>>,
     A2 |-> <<[subscriptionId |-> "b", tenantId |-> Some("T1")]>>]

\* what managementGroups.get(id) yields: group a belongs to tenant T1, group b has no tenantId
RemoteManagementGroups == [a |-> [tenantId |-> Some("T1")], b |-> [tenantId |-> Undefined]]

\* what findTenantInformationByTenantId yields when the directory answers
RemoteTenantInformation ==
    [T0 |-> [tenantId |-> "T0", displayName |-> "Home", defaultDomainName |-> "home.example"],
     T1 |-> [tenantId |-> "T1", displayName |-> "Contoso", defaultDomainName |-> "contoso.example"]]

TenantIds == {"T0", "T1"}

\* toRecord(tenants, 'tenantId'): a later item overwrites an earlier one with the same key
RECURSIVE toRecord(_, _)
toRecord(items, acc) ==
    IF items = <<>> THEN acc
    ELSE toRecord(Tail(items),
                  IF Head(items).tenantId # ""
                  THEN [acc EXCEPT ![Head(items).tenantId] = Some(Head(items))]
                  ELSE acc)

EmptyTenantLookup == [t \in TenantIds |-> Undefined]

\* { ...tenantInfo, defaultDomain: tenantInfo.defaultDomainName }
tenantOf(tenantInfo) ==
    [tenantId |-> tenantInfo.tenantId, displayName |-> tenantInfo.displayName,
     defaultDomainName |-> tenantInfo.defaultDomainName, defaultDomain |-> tenantInfo.defaultDomainName]

\* { tenantId: tenantId, displayName: `[Unknown] - ${error.message}` }
unknownTenant(tenantId, error) ==
    [tenantId |-> tenantId, displayName |-> <<"[Unknown] - ", error.message>>]

PlainError(text) == [name |-> "Error", message |-> <<text>>]

\* resourceId.startsWith('/administrativeUnits/')
startsWithAdministrativeUnits(s) == Len(s) >= 3 /\ s[1] = "" /\ s[2] = "administrativeUnits"

\* the match on the instance of the parsed id: the subscription of the four subscription-rooted
\* classes, undefined otherwise
subscriptionIdOf(parsedResourceId) ==
    CASE parsedResourceId.class \in {"ChildResourceId", "ResourceId", "ResourceGroupId"} ->
            Some(parsedResourceId.subscription)
      [] parsedResourceId.class = "SubscriptionId" -> Some(parsedResourceId.id)
      [] OTHER -> Undefined

Home(account) == [kind |-> "home", tenantId |-> account.tenantId]

\* mutant: a parsed TenantId falls through to the subscription match
tenantIdSourceNoTenantCase(role) ==
    LET account == getAccountByLocalId(role.accountId)
    IN  IF role.schedule = Undefined THEN Home(account)
        ELSE IF role.schedule[1].sourceType # "arm" THEN Home(account)
        ELSE IF role.schedule[1].scope = <<"", "">> \/ startsWithAdministrativeUnits(role.schedule[1].scope)
        THEN Home(account)
        ELSE IF parseResourceId(role.schedule[1].scope).threw
        THEN [kind |-> "threw", error |-> parseResourceId(role.schedule[1].scope).error]
        ELSE LET parsedResourceId == parseResourceId(role.schedule[1].scope).value
             IN  IF parsedResourceId.class = "ManagementGroupId"
                 THEN [kind |-> "managementGroup", id |-> parsedResourceId.id]
                 ELSE IF subscriptionIdOf(parsedResourceId) = Undefined
                 THEN [kind |-> "threw",
                       error |-> PlainError("Failed to parse subscription ID from schedule scope")]
                 ELSE [kind |-> "subscription", id |-> subscriptionIdOf(parsedResourceId)[1]]

\* mutant: a management group is looked for in the subscription list
tenantIdSourceNoManagementGroupCase(role) ==
    LET account == getAccountByLocalId(role.accountId)
    IN  IF role.schedule = Undefined THEN Home(account)
        ELSE IF role.schedule[1].sourceType # "arm" THEN Home(account)
        ELSE IF role.schedule[1].scope = <<"", "">> \/ startsWithAdministrativeUnits(role.schedule[1].scope)
        THEN Home(account)
        ELSE IF parseResourceId(role.schedule[1].scope).threw
        THEN [kind |-> "threw", error |-> parseResourceId(role.schedule[1].scope).error]
        ELSE LET parsedResourceId == parseResourceId(role.schedule[1].scope).value
             IN  IF parsedResourceId.class = "TenantId" THEN Home(account)
                 ELSE IF parsedResourceId.class = "ManagementGroupId"
                 THEN [kind |-> "subscription", id |-> parsedResourceId.id]
                 ELSE IF subscriptionIdOf(parsedResourceId) = Undefined
                 THEN [kind |-> "threw",
                       error |-> PlainError("Failed to parse subscription ID from schedule scope")]
                 ELSE [kind |-> "subscription", id |-> subscriptionIdOf(parsedResourceId)[1]]

\* fetchTenantIdForEligibleRole up to its first await: the home tenant, the management group
\* or the subscription to ask the directory for, or the exception thrown
tenantIdSource(role) ==
    LET account == getAccountByLocalId(role.accountId)
    IN  IF role.schedule = Undefined THEN Home(account)
        ELSE IF role.schedule[1].sourceType # "arm" THEN Home(account)
        ELSE IF role.schedule[1].scope = <<"", "">> \/ startsWithAdministrativeUnits(role.schedule[1].scope)
        THEN Home(account)
        ELSE IF parseResourceId(role.schedule[1].scope).threw
        THEN [kind |-> "threw", error |-> parseResourceId(role.schedule[1].scope).error]
        ELSE LET parsedResourceId == parseResourceId(role.schedule[1].scope).value
             IN  IF parsedResourceId.class = "TenantId" THEN Home(account)
                 ELSE IF parsedResourceId.class = "ManagementGroupId"
                 THEN [kind |-> "managementGroup", id |-> parsedResourceId.id]
                 ELSE IF subscriptionIdOf(parsedResourceId) = Undefined
                 THEN [kind |-> "threw",
                       error |-> PlainError("Failed to parse subscription ID from schedule scope")]
                 ELSE [kind |-> "subscription", id |-> subscriptionIdOf(parsedResourceId)[1]]

\* after await fetchManagementGroup: the group's tenantId, or the exception for a group without
tenantIdOfManagementGroup(managementGroupInfo) ==
    IF managementGroupInfo.tenantId = Undefined
    THEN Threw(PlainError("Management Group does not have a tenantId, this is probably a bug."))
    ELSE Returned(managementGroupInfo.tenantId[1])

\* subscriptions.find(({ subscriptionId: id }) => id === subscriptionId)
findSubscription(subscriptions, subscriptionId) ==
    LET hits == {i \in 1..Len(subscriptions) : subscriptions[i].subscriptionId = subscriptionId}
    IN  IF hits = {} THEN Undefined
        ELSE Some(subscriptions[CHOOSE i \in hits : \A j \in hits : i <= j])

\* after await fetchSubscriptions: the tenantId of the subscription, or the exception thrown
tenantIdOfSubscription(subscriptions, subscriptionId) ==
    IF findSubscription(subscriptions, subscriptionId) = Undefined
    THEN Threw(PlainError("SubscriptionId not found"))
    ELSE IF findSubscription(subscriptions, subscriptionId)[1].tenantId = Undefined
    THEN Threw(PlainError("Management Group does not have a tenantId, this is probably a bug."))
    ELSE Returned(findSubscription(subscriptions, subscriptionId)[1].tenantId[1])

\* what the component renders for a query that ended in an error
renderError(error) ==
    IF error.name = "FetchTenantSubscriptionNotFoundError"
    THEN <<"Subscription Not Found">>
    ELSE <<"Error: ", error.message>>

\* what the component renders: the skeleton while fetching or without data, else the error
\* text, else the tenant's defaultDomain ?? displayName ?? tenantId
render(tenantInfo, error, isFetching) ==
    IF isFetching \/ tenantInfo = Undefined THEN <<"Loading Tenant ID">>
    ELSE IF error # Undefined THEN renderError(error[1])
    ELSE IF "defaultDomain" \in DOMAIN tenantInfo[1] THEN <<tenantInfo[1].defaultDomain>>
    ELSE <<tenantInfo[1].displayName>>

\* ------------------------------------------------------------------ tenant resolution: actions

\* the two ResolvedTenantName components whose queries run side by side
Resolvers == {"r1", "r2"}

CallKinds == {"tenants.list", "subscriptions.list", "managementGroups.get", "findTenantInformation"}

ArmSchedule(id, scope) == Some([id |-> id, sourceType |-> "arm", scope |-> scope])

\* the scopes of the ARM schedules: "/", an administrative unit, the empty string, and the
\* six forms of the grammar
TenantScopes ==
    {<<"", "">>,
     <<"", "administrativeUnits", "a">>,
     <<"">>,
     <<"", "tenants", "a">>,
     <<"", "providers", "Microsoft.Management", "managementGroups", "a">>,
     <<"", "providers", "Microsoft.Management", "managementGroups", "b">>,
     <<"", "subscriptions", "a">>,
     <<"", "subscriptions", "b">>,
     <<"", "subscriptions", "b", "resourceGroups", "a">>,
     <<"", "subscriptions", "b", "resourceGroups", "a", "providers", "a", "a", "a">>,
     <<"", "subscriptions", "b", "resourceGroups", "a", "providers", "a", "a", "a", "a", "a">>}

\* the roles of the first component: no schedule, a directory role, a group role, or an ARM
\* role on one of the scopes
TenantRoles ==
    {[accountId |-> a, schedule |-> sch] :
        a \in Accounts,
        sch \in {Undefined,
                 Some([id |-> "E1", sourceType |-> "graph", scope |-> <<"", "">>]),
                 Some([id |-> "E1", sourceType |-> "group", scope |-> <<"g1">>])}
                \cup {ArmSchedule("E1", sc) : sc \in TenantScopes}}

\* the roles of the second component: subscription scopes
ConcurrentRoles ==
    {[accountId |-> "A1", schedule |-> ArmSchedule("E2", <<"", "subscriptions", "b">>)],
     [accountId |-> "A1", schedule |-> ArmSchedule("E2", <<"", "subscriptions", "a">>)],
     [accountId |-> "A2", schedule |-> ArmSchedule("E2", <<"", "subscriptions", "b">>)]}

Idle(role) ==
    [pc |-> "idle", role |-> role, lookup |-> 0, tenantId |-> Undefined, issued |-> <<>>,
     fetched |-> Undefined, result |-> Undefined]

InitTenant ==
    /\ LoginUnused
    /\ ActionsUnused
    /\ NormalizeUnused
    /\ UpstreamUnused
    /\ ProvidersUnused
    /\ SessionUnused
    /\ eligibleRoles = Undefined
    /\ roleAssignments = Undefined
    /\ roleStatus = Undefined
    /\ roleStatusByAccount = Undefined
    /\ now = Instants[1]
    /\ resourceId = <<>>
    /\ parsed = Undefined
    /\ PortalUnused
    /\ tenantsQuery = [a \in Accounts |-> Undefined]
    /\ heap = <<>>
    /\ subscriptionCache = [a \in Accounts |-> Undefined]
    /\ calls = [a \in Accounts |-> [k \in CallKinds |-> 0]]
    /\ \E r1 \in TenantRoles, r2 \in ConcurrentRoles :
            resolution = [r \in Resolvers |-> IF r = "r1" THEN Idle(r1) ELSE Idle(r2)]

otherVars == <<eligibleRoles, roleAssignments, roleStatus, roleStatusByAccount, now, resourceId,
               parsed, portalVars>>

\* one more remote call of the kind, for the account
Called(a, kind) == [calls EXCEPT ![a][kind] = @ + 1]

\* the tenants query runs for the first time: fetchTenants, then toRecord
FetchTenants ==
    \E a \in Accounts :
        /\ tenantsQuery[a] = Undefined
        /\ heap' = Append(heap, toRecord(RemoteTenants[a], EmptyTenantLookup))
        /\ tenantsQuery' = [tenantsQuery EXCEPT ![a] = Some(Len(heap) + 1)]
        /\ calls' = Called(a, "tenants.list")
        /\ UNCHANGED <<subscriptionCache, resolution, otherVars, sessionVars, providerVars, upstreamVars, normalizeVars, actionVars, loginVars>>

\* refresh(): invalidateQueries(['pim']) makes the tenants query of an account run again; the
\* query keeps its data object when the new data equals it, and takes the new data otherwise
Refresh ==
    \E a \in Accounts :
        /\ tenantsQuery[a] # Undefined
        /\ calls[a]["tenants.list"] < MaxTenantFetches
        /\ calls' = Called(a, "tenants.list")
        /\ IF toRecord(RemoteTenants[a], EmptyTenantLookup) = heap[tenantsQuery[a][1]]
           THEN UNCHANGED <<heap, tenantsQuery>>
           ELSE /\ heap' = Append(heap, toRecord(RemoteTenants[a], EmptyTenantLookup))
                /\ tenantsQuery' = [tenantsQuery EXCEPT ![a] = Some(Len(heap) + 1)]
        /\ UNCHANGED <<subscriptionCache, resolution, otherVars, sessionVars, providerVars, upstreamVars, normalizeVars, actionVars, loginVars>>

\* the queryFn starts: it holds the tenantInfoLookup of the render and runs
\* fetchTenantIdForEligibleRole up to its first await.  With the caching fetchSubscriptions a
\* list already in subscriptionCache is returned without a call.
Start(r, caching) ==
    LET slot == resolution[r]
        a == slot.role.accountId
        source == tenantIdSource(slot.role)
        held == [slot EXCEPT !.lookup = tenantsQuery[a][1]]
        remote == source.kind = "managementGroup"
                    \/ (source.kind = "subscription" /\ ~(caching /\ subscriptionCache[a] # Undefined))
        kind == IF source.kind = "managementGroup" THEN "managementGroups.get" ELSE "subscriptions.list"
    IN  /\ slot.pc = "idle"
        /\ tenantsQuery[a] # Undefined
        /\ resolution' = [resolution EXCEPT ![r] =
                CASE source.kind = "home" ->
                        [held EXCEPT !.pc = "resolved", !.tenantId = Some(source.tenantId)]
                  [] source.kind = "threw" ->
                        [held EXCEPT !.pc = "done", !.result = Some(Threw(source.error))]
                  [] source.kind = "managementGroup" ->
                        [held EXCEPT !.pc = "awaitManagementGroup", !.issued = Append(@, kind)]
                  [] source.kind = "subscription" ->
                        [held EXCEPT !.pc = "awaitSubscriptions",
                                     !.issued = IF remote THEN Append(@, kind) ELSE @]]
        /\ calls' = IF remote THEN Called(a, kind) ELSE calls
        /\ UNCHANGED <<tenantsQuery, heap, subscriptionCache, otherVars, sessionVars, providerVars, upstreamVars, normalizeVars, actionVars, loginVars>>

\* the tenant id is known, or the resolution ends with the exception
Resolved(slot, outcome) ==
    IF outcome.threw
    THEN [slot EXCEPT !.pc = "done", !.result = Some(outcome)]
    ELSE [slot EXCEPT !.pc = "resolved", !.tenantId = Some(outcome.value)]

\* managementGroups.get answers
ManagementGroupReturns ==
    \E r \in Resolvers :
        /\ resolution[r].pc = "awaitManagementGroup"
        /\ resolution' = [resolution EXCEPT ![r] =
                Resolved(@, tenantIdOfManagementGroup(RemoteManagementGroups[tenantIdSource(@.role).id]))]
        /\ UNCHANGED <<tenantsQuery, heap, subscriptionCache, calls, otherVars, sessionVars, providerVars, upstreamVars, normalizeVars, actionVars, loginVars>>

\* fetchSubscriptions answers; the caching one stores the list it fetched
Continue(r, caching) ==
    LET slot == resolution[r]
        a == slot.role.accountId
        fetchedNow == "subscriptions.list" \in {slot.issued[i] : i \in 1..Len(slot.issued)}
        subscriptions == IF fetchedNow THEN RemoteSubscriptions[a] ELSE subscriptionCache[a][1]
    IN  /\ slot.pc = "awaitSubscriptions"
        /\ subscriptionCache' = IF caching /\ fetchedNow
                                THEN [subscriptionCache EXCEPT ![a] = Some(RemoteSubscriptions[a])]
                                ELSE subscriptionCache
        /\ resolution' = [resolution EXCEPT ![r] =
                Resolved(@, tenantIdOfSubscription(subscriptions, tenantIdSource(@.role).id))]
        /\ UNCHANGED <<tenantsQuery, heap, calls, otherVars, sessionVars, providerVars, upstreamVars, normalizeVars, actionVars, loginVars>>

\* api/subscriptions.ts: fetchSubscriptions lists the subscriptions on every call
StartResolution == \E r \in Resolvers : Start(r, FALSE)

SubscriptionsReturn == \E r \in Resolvers : Continue(r, FALSE)

\* common/subscriptions.ts: fetchSubscriptions keeps the list in subscriptionCache
StartResolutionCached == \E r \in Resolvers : Start(r, TRUE)

SubscriptionsReturnCached == \E r \in Resolvers : Continue(r, TRUE)

\* if (tenantInfoLookup[tenantId]) return it; else await findTenantInformation
LookupTenant ==
    \E r \in Resolvers :
        LET slot == resolution[r]
            a == slot.role.accountId
        IN  /\ slot.pc = "resolved"
            /\ IF heap[slot.lookup][slot.tenantId[1]] # Undefined
               THEN /\ resolution' = [resolution EXCEPT ![r] =
                            [@ EXCEPT !.pc = "done",
                                      !.result = Some(Returned(heap[slot.lookup][slot.tenantId[1]][1]))]]
                    /\ UNCHANGED calls
               ELSE /\ resolution' = [resolution EXCEPT ![r] =
                            [@ EXCEPT !.pc = "awaitTenantInformation",
                                      !.issued = Append(@, "findTenantInformation")]]
                    /\ calls' = Called(a, "findTenantInformation")
            /\ UNCHANGED <<tenantsQuery, heap, subscriptionCache, otherVars, sessionVars, providerVars, upstreamVars, normalizeVars, actionVars, loginVars>>

\* useQueryClient() called from the queryFn, which is not a render: React has no dispatcher
InvalidHookCallError == [name |-> "TypeError", message |-> <<"Invalid hook call">>]

\* setQueryData(key, data): the query keeps its data object when data equals it, else takes a
\* copy of data; the reference the query holds afterwards, and the heap with the copy
setQueryData(a, h, ref) ==
    IF tenantsQuery[a][1] = ref \/ h[tenantsQuery[a][1]] = h[ref]
    THEN [query |-> tenantsQuery, heap |-> h]
    ELSE [query |-> [tenantsQuery EXCEPT ![a] = Some(Len(h) + 1)], heap |-> Append(h, h[ref])]

\* findTenantInformation answers: the tenant is written into the held lookup object, then
\* useQueryClient() either throws, which the catch turns into the unknown tenant, or yields the
\* client and the lookup is set as the query's data
TenantInformationReturns ==
    \E r \in Resolvers, hookThrows \in BOOLEAN :
        LET slot == resolution[r]
            a == slot.role.accountId
            tenantId == slot.tenantId[1]
            tenant == tenantOf(RemoteTenantInformation[tenantId])
            written == [heap EXCEPT ![slot.lookup][tenantId] = Some(tenant)]
        IN  /\ slot.pc = "awaitTenantInformation"
            /\ IF hookThrows
               THEN /\ heap' = written
                    /\ UNCHANGED tenantsQuery
                    /\ resolution' = [resolution EXCEPT ![r] =
                            [@ EXCEPT !.pc = "done", !.fetched = Some(tenant),
                                      !.result = Some(Returned(unknownTenant(tenantId, InvalidHookCallError)))]]
               ELSE /\ heap' = setQueryData(a, written, slot.lookup).heap
                    /\ tenantsQuery' = setQueryData(a, written, slot.lookup).query
                    /\ resolution' = [resolution EXCEPT ![r] =
                            [@ EXCEPT !.pc = "done", !.fetched = Some(tenant),
                                      !.result = Some(Returned(tenant))]]
            /\ UNCHANGED <<subscriptionCache, calls, otherVars, sessionVars, providerVars, upstreamVars, normalizeVars, actionVars, loginVars>>

\* findTenantInformation throws: the catch returns the unknown tenant
TenantInformationFails ==
    \E r \in Resolvers :
        /\ resolution[r].pc = "awaitTenantInformation"
        /\ resolution' = [resolution EXCEPT ![r] =
                [@ EXCEPT !.pc = "done",
                          !.result = Some(Returned(unknownTenant(resolution[r].tenantId[1],
                                PlainError("Failed to retrieve tenant information for tenantId"))))]]
        /\ UNCHANGED <<tenantsQuery, heap, subscriptionCache, calls, otherVars, sessionVars, providerVars, upstreamVars, normalizeVars, actionVars, loginVars>>

NextTenant ==
    \/ FetchTenants
    \/ Refresh
    \/ StartResolution
    \/ ManagementGroupReturns
    \/ SubscriptionsReturn
    \/ LookupTenant
    \/ TenantInformationReturns
    \/ TenantInformationFails

SpecTenant == InitTenant /\ [][NextTenant]_vars

NextTenantCached ==
    \/ FetchTenants
    \/ Refresh
    \/ StartResolutionCached
    \/ ManagementGroupReturns
    \/ SubscriptionsReturnCached
    \/ LookupTenant
    \/ TenantInformationReturns
    \/ TenantInformationFails

SpecTenantCached == InitTenant /\ [][NextTenantCached]_vars

\* ------------------------------------------------------------------ data sources that fail

\* what a data source raises when the network or the token acquisition fails
UpstreamFailures ==
    {[name |-> "RestError", message |-> <<"network">>],
     [name |-> "InteractionRequiredAuthError", message |-> <<"interaction_required">>]}

Raised(r, error) == Append(raised, [resolver |-> r, error |-> error])

\* catch (error) { throwIfNotError(error); return { tenantId, displayName: `[Unknown] - ...` } }
caught(tenantId, error) == Returned(unknownTenant(tenantId, error))

\* fetchSubscriptions rejects inside fetchTenantIdForEligibleRole: the queryFn rejects with it
SubscriptionsFail ==
    \E r \in Resolvers, error \in UpstreamFailures :
        /\ resolution[r].pc = "awaitSubscriptions"
        /\ resolution' = [resolution EXCEPT ![r] = Resolved(@, Threw(error))]
        /\ raised' = Raised(r, error)
        /\ UNCHANGED <<tenantsQuery, heap, subscriptionCache, calls, otherVars, sessionVars, providerVars, normalizeVars, actionVars, loginVars>>

\* fetchManagementGroup rejects inside fetchTenantIdForEligibleRole: the queryFn rejects with it
ManagementGroupFails ==
    \E r \in Resolvers, error \in UpstreamFailures :
        /\ resolution[r].pc = "awaitManagementGroup"
        /\ resolution' = [resolution EXCEPT ![r] = Resolved(@, Threw(error))]
        /\ raised' = Raised(r, error)
        /\ UNCHANGED <<tenantsQuery, heap, subscriptionCache, calls, otherVars, sessionVars, providerVars, normalizeVars, actionVars, loginVars>>

\* findTenantInformation rejects: the catch of the queryFn takes it
TenantInformationRejects ==
    \E r \in Resolvers, error \in UpstreamFailures :
        /\ resolution[r].pc = "awaitTenantInformation"
        /\ resolution' = [resolution EXCEPT ![r] =
                [@ EXCEPT !.pc = "done",
                          !.result = Some(caught(resolution[r].tenantId[1], error))]]
        /\ raised' = Raised(r, error)
        /\ UNCHANGED <<tenantsQuery, heap, subscriptionCache, calls, otherVars, sessionVars, providerVars, normalizeVars, actionVars, loginVars>>

NextTenantUpstream ==
    \/ NextTenant
    \/ SubscriptionsFail
    \/ ManagementGroupFails
    \/ TenantInformationRejects

SpecTenantUpstream == InitTenant /\ [][NextTenantUpstream]_vars

\* ------------------------------------------------------------------ sessions and module-level caches

MaxInflight == 2

\* the two list functions of common/subscriptions.ts and what each lists remotely
ListFunctions == {"fetchSubscriptions", "fetchTenants"}

RemoteList(fn, a) == IF fn = "fetchSubscriptions" THEN RemoteSubscriptions[a] ELSE RemoteTenants[a]

\* subscriptionCache[key] or tenantCache[key], key = account.homeAccountId
ModuleCache(fn, a) ==
    IF fn = "fetchSubscriptions" THEN subscriptionCache[AccountInfos[a].homeAccountId]
    ELSE tenantCache[AccountInfos[a].homeAccountId]

Answer(fn, a, value) == Some([fn |-> fn, account |-> a, value |-> value])

InitSession ==
    /\ LoginUnused
    /\ ActionsUnused
    /\ NormalizeUnused
    /\ UpstreamUnused
    /\ ProvidersUnused
    /\ eligibleRoles = Undefined
    /\ roleAssignments = Undefined
    /\ roleStatus = Undefined
    /\ roleStatusByAccount = Undefined
    /\ now = Instants[1]
    /\ resourceId = <<>>
    /\ parsed = Undefined
    /\ PortalUnused
    /\ tenantsQuery = <<>>
    /\ heap = <<>>
    /\ calls = <<>>
    /\ resolution = <<>>
    /\ subscriptionCache = [a \in Accounts |-> Undefined]
    /\ tenantCache = [a \in Accounts |-> Undefined]
    /\ pimClient = Undefined
    /\ sessionStorage = [k \in {"subscriptions", "tenants"} |-> Undefined]
    /\ signedIn = {}
    /\ inflight = {}
    /\ served = Undefined

sessionOtherVars ==
    <<eligibleRoles, roleAssignments, roleStatus, roleStatusByAccount, now, resourceId, parsed,
      portalVars, tenantsQuery, heap, calls, resolution>>

\* a login completes: the account is in the MSAL cache
SignIn ==
    \E a \in Accounts :
        /\ a \notin signedIn
        /\ signedIn' = signedIn \cup {a}
        /\ UNCHANGED <<subscriptionCache, tenantCache, pimClient, sessionStorage, inflight, served,
                       sessionOtherVars, providerVars, upstreamVars, normalizeVars, actionVars, loginVars>>

\* logout(account): client.clearCache({ account }), and nothing else
Logout ==
    \E a \in signedIn :
        /\ signedIn' = signedIn \ {a}
        /\ UNCHANGED <<subscriptionCache, tenantCache, pimClient, sessionStorage, inflight, served,
                       sessionOtherVars, providerVars, upstreamVars, normalizeVars, actionVars, loginVars>>

\* fetchSubscriptions / fetchTenants of common/subscriptions.ts up to the await: a list in the
\* cache is returned unless forceRefresh, else the list call is sent
CallList ==
    \E fn \in ListFunctions, a \in signedIn, forceRefresh \in BOOLEAN :
        /\ IF ModuleCache(fn, a) # Undefined /\ ~forceRefresh
           THEN /\ served' = Answer(fn, a, ModuleCache(fn, a)[1])
                /\ UNCHANGED inflight
           ELSE /\ Cardinality(inflight) < MaxInflight
                /\ inflight' = inflight \cup {[fn |-> fn, account |-> a]}
                /\ UNCHANGED served
        /\ UNCHANGED <<signedIn, subscriptionCache, tenantCache, pimClient, sessionStorage,
                       sessionOtherVars, providerVars, upstreamVars, normalizeVars, actionVars, loginVars>>

\* the list call answers: the list is stored under the account's key and returned
ListReturns ==
    \E c \in inflight :
        /\ c.fn \in ListFunctions
        /\ inflight' = inflight \ {c}
        /\ subscriptionCache' =
                IF c.fn = "fetchSubscriptions"
                THEN [subscriptionCache EXCEPT ![AccountInfos[c.account].homeAccountId] =
                            Some(RemoteList(c.fn, c.account))]
                ELSE subscriptionCache
        /\ tenantCache' =
                IF c.fn = "fetchTenants"
                THEN [tenantCache EXCEPT ![AccountInfos[c.account].homeAccountId] =
                            Some(RemoteList(c.fn, c.account))]
                ELSE tenantCache
        /\ served' = Answer(c.fn, c.account, RemoteList(c.fn, c.account))
        /\ UNCHANGED <<signedIn, pimClient, sessionStorage, sessionOtherVars, providerVars, upstreamVars, normalizeVars, actionVars, loginVars>>

\* new AuthorizationManagementClient(new AccountInfoTokenCredential(account), ...)
NewPimClient(a) == [credential |-> a]

\* getPimClient(account): the module-level client, made on the first call
getPimClient(client, a) == IF client = Undefined THEN Some(NewPimClient(a)) ELSE client

GetPimClient ==
    \E a \in signedIn :
        /\ pimClient' = getPimClient(pimClient, a)
        /\ served' = Answer("getPimClient", a, getPimClient(pimClient, a)[1])
        /\ UNCHANGED <<signedIn, subscriptionCache, tenantCache, sessionStorage, inflight,
                       sessionOtherVars, providerVars, upstreamVars, normalizeVars, actionVars, loginVars>>

NextSession ==
    \/ SignIn
    \/ Logout
    \/ CallList
    \/ ListReturns
    \/ GetPimClient

SpecSession == InitSession /\ [][NextSession]_vars

\* ------------------------------------------------------------------ lists kept in chrome.storage.session

\* the key each function of the session-storage revision uses
StorageKey(fn) == IF fn = "fetchSubscriptions" THEN "subscriptions" ELSE "tenants"

\* fetchSubscriptions / fetchTenants of the session-storage revision up to the list call:
\* forceRefresh removes the key, a stored list is returned, else the list call is sent
CallStoredList ==
    \E fn \in ListFunctions, a \in signedIn, forceRefresh \in BOOLEAN :
        LET kept == IF forceRefresh THEN Undefined ELSE sessionStorage[StorageKey(fn)]
        IN  /\ sessionStorage' = [sessionStorage EXCEPT ![StorageKey(fn)] = kept]
            /\ IF kept # Undefined /\ kept[1] # <<>>
               THEN /\ served' = Answer(fn, a, kept[1])
                    /\ UNCHANGED inflight
               ELSE /\ Cardinality(inflight) < MaxInflight
                    /\ inflight' = inflight \cup {[fn |-> fn, account |-> a]}
                    /\ UNCHANGED served
            /\ UNCHANGED <<signedIn, subscriptionCache, tenantCache, pimClient, sessionOtherVars, providerVars, upstreamVars, normalizeVars, actionVars, loginVars>>

\* the list call answers: the list is stored under the key and returned
StoredListReturns ==
    \E c \in inflight :
        /\ inflight' = inflight \ {c}
        /\ sessionStorage' = [sessionStorage EXCEPT ![StorageKey(c.fn)] = Some(RemoteList(c.fn, c.account))]
        /\ served' = Answer(c.fn, c.account, RemoteList(c.fn, c.account))
        /\ UNCHANGED <<signedIn, subscriptionCache, tenantCache, pimClient, sessionOtherVars, providerVars, upstreamVars, normalizeVars, actionVars, loginVars>>

NextStored ==
    \/ SignIn
    \/ Logout
    \/ CallStoredList
    \/ StoredListReturns

SpecStored == InitSession /\ [][NextStored]_vars

\* ------------------------------------------------------------------ the per-provider queries

MaxProviderRows == 1

\* a query of @tanstack/react-query: its status and its data
Pending == [status |-> "pending", data |-> Undefined]
Success(data) == [status |-> "success", data |-> Some(data)]
Failed == [status |-> "error", data |-> Undefined]

isSuccess(query) == query.status = "success"

\* what one provider lists for account A1: distinct eligibility instances of its own source
ProviderRoles(src) ==
    {SetToSeq(S) :
        S \in {T \in SUBSET {EligibleRole("A1", CommonRoleSchedule(sid, src, RoleTriple[1], RoleTriple[2],
                                                                   RoleTriple[3])) : sid \in ScheduleIds} :
                    Cardinality(T) <= MaxProviderRows}}

\* the active assignment of one provider that matches the eligible role E1 of its source
ProviderAssignment(src) ==
    [id |-> src] @@
    CommonRoleAssignmentScheduleInstance(src, RoleTriple[1], RoleTriple[2], RoleTriple[3],
        IF src = "arm" THEN Some("E1") ELSE Undefined,
        IF src = "arm" THEN KnownStatusProvisioned ELSE "Activated", Undefined)

ProviderAssignments(src) == SeqsUpTo({ProviderAssignment(src)}, MaxProviderRows)

\* query.data ?? []
dataOrEmpty(query) == IF query.data = Undefined THEN <<>> ELSE query.data[1]

\* [...arm, ...graph, ...group]
combine(queries) == dataOrEmpty(queries["arm"]) \o dataOrEmpty(queries["graph"]) \o dataOrEmpty(queries["group"])

\* enabled: arm.isSuccess && graph.isSuccess && group.isSuccess
combinedEnabled(queries) == \A src \in SourceTypes : isSuccess(queries[src])

InitProviders ==
    /\ LoginUnused
    /\ ActionsUnused
    /\ NormalizeUnused
    /\ UpstreamUnused
    /\ SessionUnused
    /\ eligibleRoles = Undefined
    /\ roleAssignments = Undefined
    /\ roleStatus = Undefined
    /\ roleStatusByAccount = Undefined
    /\ now = Instants[1]
    /\ resourceId = <<>>
    /\ parsed = Undefined
    /\ PortalUnused
    /\ TenantUnused
    /\ eligibleRolesQueries = [src \in SourceTypes |-> Pending]
    /\ roleAssignmentsQueries = [src \in SourceTypes |-> Pending]

providerOtherVars ==
    <<roleStatusByAccount, now, resourceId, parsed, portalVars, tenantVars, sessionVars>>

\* the queryFn of one provider's eligible-role query returns
ProviderRolesReturn ==
    \E src \in SourceTypes : \E roles \in ProviderRoles(src) :
        /\ eligibleRolesQueries[src] = Pending
        /\ eligibleRolesQueries' = [eligibleRolesQueries EXCEPT ![src] = Success(roles)]
        /\ UNCHANGED <<roleAssignmentsQueries, eligibleRoles, roleAssignments, roleStatus, providerOtherVars, upstreamVars, normalizeVars, actionVars, loginVars>>

\* the queryFn of one provider's eligible-role query rejects, retries included
ProviderRolesFail ==
    \E src \in SourceTypes :
        /\ eligibleRolesQueries[src] = Pending
        /\ eligibleRolesQueries' = [eligibleRolesQueries EXCEPT ![src] = Failed]
        /\ UNCHANGED <<roleAssignmentsQueries, eligibleRoles, roleAssignments, roleStatus, providerOtherVars, upstreamVars, normalizeVars, actionVars, loginVars>>

\* the queryFn of one provider's assignment query returns
ProviderAssignmentsReturn ==
    \E src \in SourceTypes : \E assignments \in ProviderAssignments(src) :
        /\ roleAssignmentsQueries[src] = Pending
        /\ roleAssignmentsQueries' = [roleAssignmentsQueries EXCEPT ![src] = Success(assignments)]
        /\ UNCHANGED <<eligibleRolesQueries, eligibleRoles, roleAssignments, roleStatus, providerOtherVars, upstreamVars, normalizeVars, actionVars, loginVars>>

\* the queryFn of one provider's assignment query rejects, retries included
ProviderAssignmentsFail ==
    \E src \in SourceTypes :
        /\ roleAssignmentsQueries[src] = Pending
        /\ roleAssignmentsQueries' = [roleAssignmentsQueries EXCEPT ![src] = Failed]
        /\ UNCHANGED <<eligibleRolesQueries, eligibleRoles, roleAssignments, roleStatus, providerOtherVars, upstreamVars, normalizeVars, actionVars, loginVars>>

\* eligibleRolesQuery.queryFn
CombineEligibleRoles ==
    /\ combinedEnabled(eligibleRolesQueries)
    /\ eligibleRoles = Undefined
    /\ eligibleRoles' = Some(combine(eligibleRolesQueries))
    /\ UNCHANGED <<eligibleRolesQueries, roleAssignmentsQueries, roleAssignments, roleStatus, providerOtherVars, upstreamVars, normalizeVars, actionVars, loginVars>>

\* roleAssignmentsQuery.queryFn
CombineRoleAssignments ==
    /\ combinedEnabled(roleAssignmentsQueries)
    /\ roleAssignments = Undefined
    /\ roleAssignments' = Some(combine(roleAssignmentsQueries))
    /\ UNCHANGED <<eligibleRolesQueries, roleAssignmentsQueries, eligibleRoles, roleStatus, providerOtherVars, upstreamVars, normalizeVars, actionVars, loginVars>>

\* roleStatusQuery.queryFn, once both combined queries have data
ReconcileCombined ==
    /\ roleStatus = Undefined
    /\ Reconcile

NextProviders ==
    \/ ProviderRolesReturn
    \/ ProviderRolesFail
    \/ ProviderAssignmentsReturn
    \/ ProviderAssignmentsFail
    \/ CombineEligibleRoles
    \/ CombineRoleAssignments
    \/ ReconcileCombined

SpecProviders == InitProviders /\ [][NextProviders]_vars

\* ------------------------------------------------------------------ normalizers

\* a ?? b
orElse(a, b) == IF a = Undefined THEN b ELSE a[1]

Optional(S) == {Undefined} \cup {Some(x) : x \in S}

\* the optional times of a provider record: none, or a start and an end
ProviderTimes == {[startDateTime |-> Undefined, endDateTime |-> Undefined],
                  [startDateTime |-> Some(StartTime), endDateTime |-> Some(StartTime + 1)]}

\* RoleAssignmentScheduleInstance and RoleEligibilityScheduleInstance of @azure/arm-authorization,
\* expandedProperties?.x?.displayName written as one optional field
ArmRecords ==
    {[id |-> Some("i1"), scope |-> sc, roleDefinitionId |-> rd, principalId |-> p,
      roleDefinitionDisplayName |-> rn, scopeDisplayName |-> sn, scopeType |-> Undefined,
      principalDisplayName |-> Undefined, status |-> Some(KnownStatusProvisioned),
      linkedRoleEligibilityScheduleInstanceId |-> Some("E1")] @@ t :
        sc \in Optional({"S1"}), rd \in Optional({"R1"}), p \in Optional({"P1"}),
        rn \in Optional({"Reader"}), sn \in Optional({"Sub 1"}), t \in ProviderTimes}

\* UnifiedRoleAssignmentScheduleInstanceExpanded and UnifiedRoleEligibilityScheduleInstanceExpanded
GraphRecords ==
    {[id |-> Some("i1"), directoryScopeId |-> sc, roleDefinitionId |-> rd, principalId |-> p,
      roleDefinitionDisplayName |-> rn, principalDisplayName |-> Undefined,
      assignmentType |-> Some("Activated")] @@ t :
        sc \in Optional({"/", "S1"}), rd \in Optional({"R1"}), p \in Optional({"P1"}),
        rn \in Optional({"Global Reader"}), t \in ProviderTimes}

\* PrivilegedAccessGroupAssignmentScheduleInstanceExpanded
GroupRecords ==
    {[id |-> Some("i1"), groupId |-> g, accessId |-> acc, principalId |-> p,
      groupDisplayName |-> gn, principalDisplayName |-> Undefined,
      assignmentType |-> Some("Activated")] @@ t :
        g \in Optional({"g1"}), acc \in Optional({"owner", "member"}), p \in Optional({"P1"}),
        gn \in Optional({"Group 1"}), t \in ProviderTimes}

fromArmAssignment(assignment) ==
    [id |-> orElse(assignment.id, ""),
     scope |-> orElse(assignment.scope, ""),
     roleDefinitionId |-> orElse(assignment.roleDefinitionId, ""),
     roleDefinitionDisplayName |-> assignment.roleDefinitionDisplayName,
     scopeDisplayName |-> assignment.scopeDisplayName,
     scopeType |-> assignment.scopeType,
     principalId |-> orElse(assignment.principalId, ""),
     principalDisplayName |-> assignment.principalDisplayName,
     startDateTime |-> assignment.startDateTime,
     endDateTime |-> assignment.endDateTime,
     status |-> assignment.status,
     linkedRoleEligibilityScheduleInstanceId |-> assignment.linkedRoleEligibilityScheduleInstanceId,
     sourceType |-> "arm"]

fromGraphAssignment(assignment) ==
    [id |-> orElse(assignment.id, ""),
     scope |-> orElse(assignment.directoryScopeId, "/"),
     roleDefinitionId |-> orElse(assignment.roleDefinitionId, ""),
     roleDefinitionDisplayName |-> assignment.roleDefinitionDisplayName,
     scopeDisplayName |-> IF assignment.directoryScopeId = Some("/") THEN Some("Directory")
                          ELSE assignment.directoryScopeId,
     scopeType |-> IF assignment.directoryScopeId = Some("/") THEN Some("directory") ELSE Undefined,
     principalId |-> orElse(assignment.principalId, ""),
     principalDisplayName |-> assignment.principalDisplayName,
     startDateTime |-> assignment.startDateTime,
     endDateTime |-> assignment.endDateTime,
     status |-> assignment.assignmentType,
     sourceType |-> "graph"]

fromGroupAssignment(assignment) ==
    LET roleDisplayName == IF assignment.accessId = Some("owner") THEN "Owner" ELSE "Member"
        groupDisplayName == orElse(assignment.groupDisplayName, "Unknown Group")
    IN  [id |-> orElse(assignment.id, ""),
         scope |-> orElse(assignment.groupId, ""),
         roleDefinitionId |-> orElse(assignment.accessId, ""),
         roleDefinitionDisplayName |-> Some(<<roleDisplayName, " of ", groupDisplayName>>),
         scopeDisplayName |-> Some(groupDisplayName),
         scopeType |-> Some("group"),
         principalId |-> orElse(assignment.principalId, ""),
         principalDisplayName |-> assignment.principalDisplayName,
         startDateTime |-> assignment.startDateTime,
         endDateTime |-> assignment.endDateTime,
         status |-> assignment.assignmentType,
         sourceType |-> "group"]

armScheduleToCommon(schedule) ==
    [id |-> orElse(schedule.id, ""),
     scope |-> orElse(schedule.scope, ""),
     roleDefinitionId |-> orElse(schedule.roleDefinitionId, ""),
     roleDefinitionDisplayName |-> Some(orElse(schedule.roleDefinitionDisplayName, "Unknown Role")),
     scopeDisplayName |-> Some(orElse(schedule.scopeDisplayName, "Unknown Scope")),
     scopeType |-> schedule.scopeType,
     principalId |-> orElse(schedule.principalId, ""),
     principalDisplayName |-> schedule.principalDisplayName,
     startDateTime |-> schedule.startDateTime,
     endDateTime |-> schedule.endDateTime,
     sourceType |-> "arm"]

graphScheduleToCommon(schedule) ==
    [id |-> orElse(schedule.id, ""),
     scope |-> orElse(schedule.directoryScopeId, "/"),
     roleDefinitionId |-> orElse(schedule.roleDefinitionId, ""),
     roleDefinitionDisplayName |-> Some(orElse(schedule.roleDefinitionDisplayName, "Unknown Role")),
     scopeDisplayName |-> IF schedule.directoryScopeId = Some("/") THEN Some("Directory")
                          ELSE Some(orElse(schedule.directoryScopeId, "Unknown Scope")),
     scopeType |-> IF schedule.directoryScopeId = Some("/") THEN Some("directory") ELSE Undefined,
     principalId |-> orElse(schedule.principalId, ""),
     principalDisplayName |-> schedule.principalDisplayName,
     startDateTime |-> schedule.startDateTime,
     endDateTime |-> schedule.endDateTime,
     sourceType |-> "graph"]

Normalizers == {"fromArmAssignment", "fromGraphAssignment", "fromGroupAssignment",
                "armScheduleToCommon", "graphScheduleToCommon"}

\* the records each normalizer is typed to take
RecordsOf(fn) ==
    CASE fn \in {"fromArmAssignment", "armScheduleToCommon"} -> ArmRecords
      [] fn \in {"fromGraphAssignment", "graphScheduleToCommon"} -> GraphRecords
      [] fn = "fromGroupAssignment" -> GroupRecords

normalize(fn, record) ==
    CASE fn = "fromArmAssignment" -> Returned(fromArmAssignment(record))
      [] fn = "fromGraphAssignment" -> Returned(fromGraphAssignment(record))
      [] fn = "fromGroupAssignment" -> Returned(fromGroupAssignment(record))
      [] fn = "armScheduleToCommon" -> Returned(armScheduleToCommon(record))
      [] fn = "graphScheduleToCommon" -> Returned(graphScheduleToCommon(record))

InitNormalize ==
    /\ LoginUnused
    /\ ActionsUnused
    /\ UpstreamUnused
    /\ ProvidersUnused
    /\ SessionUnused
    /\ eligibleRoles = Undefined
    /\ roleAssignments = Undefined
    /\ roleStatus = Undefined
    /\ roleStatusByAccount = Undefined
    /\ now = Instants[1]
    /\ resourceId = <<>>
    /\ parsed = Undefined
    /\ PortalUnused
    /\ TenantUnused
    /\ providerRecord = Undefined
    /\ normalized = Undefined

normalizeOtherVars ==
    <<eligibleRoles, roleAssignments, roleStatus, roleStatusByAccount, now, resourceId, parsed,
      portalVars, tenantVars, sessionVars, providerVars, upstreamVars>>

\* a provider returns a record to the query that will normalize it
Receive ==
    \E fn \in Normalizers : \E record \in RecordsOf(fn) :
        /\ providerRecord = Undefined
        /\ providerRecord' = Some([fn |-> fn, record |-> record])
        /\ UNCHANGED <<normalized, normalizeOtherVars, actionVars, loginVars>>

\* the query maps the record
Normalize ==
    /\ providerRecord # Undefined
    /\ normalized = Undefined
    /\ normalized' = Some(normalize(providerRecord[1].fn, providerRecord[1].record))
    /\ UNCHANGED <<providerRecord, normalizeOtherVars, actionVars, loginVars>>

NextNormalize ==
    \/ Receive
    \/ Normalize

SpecNormalize == InitNormalize /\ [][NextNormalize]_vars

\* ------------------------------------------------------------------ deactivation of a group role

MaxPosts == 2

GroupIds == {"g1", "g2"}

AccessIds == {"owner", "member"}

\* the eligible group roles as the normalizers write them: scope is the group's object id,
\* roleDefinitionId the access id
GroupRoles ==
    {EligibleRole(a, CommonRoleSchedule("E1", "group", acc, g, p)) :
        a \in Accounts, acc \in AccessIds, g \in GroupIds, p \in PrincipalIds}

\* the body deactivateEntraGroupAssignmentScheduleRequest posts
deactivateEntraGroupAssignmentScheduleRequest(role) ==
    [action |-> "selfDeactivate",
     principalId |-> role.schedule.principalId,
     groupId |-> role.schedule.roleDefinitionId,
     accessId |-> IF role.schedule.scope = "owner" THEN "owner" ELSE "member",
     justification |-> "User Requested Deactivation (PIMFast)"]

InitGroupDeactivate ==
    /\ LoginUnused
    /\ NormalizeUnused
    /\ UpstreamUnused
    /\ ProvidersUnused
    /\ SessionUnused
    /\ eligibleRoles = Undefined
    /\ roleAssignments = Undefined
    /\ roleStatus = Undefined
    /\ roleStatusByAccount = Undefined
    /\ now = Instants[1]
    /\ resourceId = <<>>
    /\ parsed = Undefined
    /\ PortalUnused
    /\ TenantUnused
    /\ posted = <<>>
    /\ cells = <<>>
    /\ sent = <<>>

\* getPimClient(role.account)...assignmentScheduleRequests.post(body)
DeactivateEntraGroup ==
    \E role \in GroupRoles :
        /\ Len(posted) < MaxPosts
        /\ posted' = Append(posted, [role |-> role, body |-> deactivateEntraGroupAssignmentScheduleRequest(role)])
        /\ UNCHANGED <<cells, sent, eligibleRoles, roleAssignments, roleStatus, roleStatusByAccount, now,
                       resourceId, parsed, portalVars, tenantVars, sessionVars, providerVars,
                       upstreamVars, normalizeVars, loginVars>>

NextGroupDeactivate == DeactivateEntraGroup

SpecGroupDeactivate == InitGroupDeactivate /\ [][NextGroupDeactivate]_vars

\* ------------------------------------------------------------------ the action button of the role table

MaxClicks == 1

\* the ARM assignment instances of account A1 that link to eligibility instance E1
TableAssignmentUniverse ==
    {CommonRoleAssignmentScheduleInstance("arm", RoleTriple[1], RoleTriple[2], RoleTriple[3],
                                          Some("E1"), status, start) :
        status \in {KnownStatusProvisioned, "PendingProvisioning"}, start \in {Undefined, Some(StartTime)}}

TableAssignmentLists == AssignmentLists(TableAssignmentUniverse)

\* roleStatusQuery.queryFn of the role table: ARM roles by the link, every other role undefined
RECURSIVE tableRoleToStatusLookup(_, _, _)
tableRoleToStatusLookup(roles, assignments, acc) ==
    IF roles = <<>> THEN acc
    ELSE LET role == Head(roles)
             hits == {i \in 1..Len(assignments) :
                        assignments[i].linkedRoleEligibilityScheduleInstanceId = Some(role.schedule.id)}
             entry == IF role.schedule.sourceType = "arm" /\ hits # {}
                      THEN Some(assignments[CHOOSE i \in hits : \A j \in hits : i <= j])
                      ELSE Undefined
         IN  tableRoleToStatusLookup(Tail(roles), assignments,
                [x \in (DOMAIN acc) \cup {role.id} |-> IF x = role.id THEN entry ELSE acc[x]])

\* roleStatusQuery.data[role.id]?.status === KnownStatus.Provisioned
tableIsEligibleRoleActivated(lookup, role) ==
    IF lookup = Undefined THEN FALSE
    ELSE LET assignment == Read(lookup[1], role.id)
         IN  assignment # Undefined /\ assignment[1].status = KnownStatusProvisioned

canActivateRole(role) == role.schedule.sourceType = "arm"

tableIsEligibleRoleNewlyActivated(lookup, role, time) ==
    IF lookup = Undefined THEN FALSE
    ELSE LET assignment == Read(lookup[1], role.id)
         IN  IF assignment = Undefined THEN FALSE
             ELSE IF assignment[1].startDateTime = Undefined THEN FALSE
             ELSE diffMinutes(time, assignment[1].startDateTime[1]) < AZURE_PIM_MIN_ACTIVATION_TIME

\* mutant: the button is disabled only for a role that cannot be activated
disabledUnlessSupported(lookup, role, time) == ~canActivateRole(role)

\* disabled={!canActivateRole(params.data) || isEligibleRoleNewlyActivated(params.data)}
disabled(lookup, role, time) ==
    ~canActivateRole(role) \/ tableIsEligibleRoleNewlyActivated(lookup, role, time)

\* the action cells of the rows, rendered with the lookup at the time
renderCells(roles, lookup, time) ==
    IF roles = Undefined THEN <<>>
    ELSE [id \in {roles[1][i].id : i \in 1..Len(roles[1])} |->
            disabled(lookup, CHOOSE role \in {roles[1][i] : i \in 1..Len(roles[1])} : role.id = id, time)]

tableOtherVars ==
    <<posted, roleStatusByAccount, resourceId, parsed, portalVars, tenantVars, sessionVars,
      providerVars, upstreamVars, normalizeVars>>

\* the eligible-role query settles and the grid renders the rows
TableFetchEligibleRoles ==
    /\ eligibleRoles = Undefined
    /\ \E roles \in StatusRoleLists :
            /\ eligibleRoles' = Some(roles)
            /\ cells' = renderCells(Some(roles), roleStatus, now)
    /\ UNCHANGED <<roleAssignments, roleStatus, now, sent, tableOtherVars, loginVars>>

\* the assignment query settles
TableFetchRoleAssignments ==
    /\ roleAssignments = Undefined
    /\ \E assignments \in TableAssignmentLists : roleAssignments' = Some(assignments)
    /\ UNCHANGED <<eligibleRoles, roleStatus, now, cells, sent, tableOtherVars, loginVars>>

\* a refetch after an assignment instance ended upstream: the status query has no data under
\* its new key, isSuccess changes, columnDefs is rebuilt and the cells render again
TableRefetchRoleAssignments ==
    /\ roleAssignments # Undefined
    /\ \E i \in 1..Len(roleAssignments[1]) : roleAssignments' = Some(Without(roleAssignments[1], i))
    /\ roleStatus' = Undefined
    /\ cells' = renderCells(eligibleRoles, Undefined, now)
    /\ UNCHANGED <<eligibleRoles, now, sent, tableOtherVars, loginVars>>

\* roleStatusQuery.queryFn runs; isSuccess changes, columnDefs is rebuilt and the cells render
TableReconcile ==
    /\ eligibleRoles # Undefined
    /\ roleAssignments # Undefined
    /\ roleStatus = Undefined
    /\ roleStatus' = Some(tableRoleToStatusLookup(eligibleRoles[1], roleAssignments[1], EmptyLookup))
    /\ cells' = renderCells(eligibleRoles, roleStatus', now)
    /\ UNCHANGED <<eligibleRoles, roleAssignments, now, sent, tableOtherVars, loginVars>>

\* time passes; the cells stay as they were rendered
TableTick ==
    /\ \E i \in 1..(Len(Instants) - 1) : now = Instants[i] /\ now' = Instants[i + 1]
    /\ UNCHANGED <<eligibleRoles, roleAssignments, roleStatus, cells, sent, tableOtherVars, loginVars>>

\* the grid renders the cells again
RenderCells ==
    /\ eligibleRoles # Undefined
    /\ cells' = renderCells(eligibleRoles, roleStatus, now)
    /\ cells' # cells
    /\ UNCHANGED <<eligibleRoles, roleAssignments, roleStatus, now, sent, tableOtherVars, loginVars>>

\* a click on a button that is not disabled: handleActivateClick(role)
Click ==
    \E id \in DOMAIN cells :
        LET role == CHOOSE r \in {eligibleRoles[1][i] : i \in 1..Len(eligibleRoles[1])} : r.id = id
            did == IF ~canActivateRole(role) THEN "warn"
                   ELSE IF ~tableIsEligibleRoleActivated(roleStatus, role) THEN "openActivationModal"
                   ELSE "deactivate"
        IN  /\ ~cells[id]
            /\ Len(sent) < MaxClicks
            /\ sent' = Append(sent, [role |-> role, did |-> did, at |-> now, lookup |-> roleStatus])
            /\ UNCHANGED <<eligibleRoles, roleAssignments, roleStatus, now, cells, tableOtherVars, loginVars>>

NextTable ==
    \/ TableFetchEligibleRoles
    \/ TableFetchRoleAssignments
    \/ TableRefetchRoleAssignments
    \/ TableReconcile
    \/ TableTick
    \/ RenderCells
    \/ Click

SpecTable == Init /\ [][NextTable]_vars

\* ------------------------------------------------------------------ login

LoginCalls == {"c1", "c2"}

PendingPromise == [status |-> "pending", value |-> Undefined]

\* new Error(`Failed to do redirect cleanup: ...`)
RedirectCleanupError == [name |-> "Error", message |-> <<"Failed to do redirect cleanup">>]

\* what handleRedirectPromise, acquireTokenRedirect and launchWebAuthFlow reject with
HandleRedirectError == [name |-> "BrowserAuthError", message |-> <<"handleRedirectPromise">>]
AcquireTokenError == [name |-> "BrowserAuthError", message |-> <<"acquireTokenRedirect">>]
WebAuthFlowError == [name |-> "Error", message |-> <<"launchWebAuthFlow">>]

AuthenticationResult == [uniqueId |-> "u1"]

NotCalled == [pc |-> "idle", returned |-> Undefined, flow |-> "none", failure |-> Undefined]

\* handleLoginError: if (rejectLogin) { rejectLogin(error); reset state }
handleLoginError(promise, all, error) ==
    IF promise = Undefined THEN [loginPromise |-> promise, promises |-> all]
    ELSE [loginPromise |-> Undefined,
          promises |-> [all EXCEPT ![promise[1]] = [status |-> "rejected", value |-> Some(error)]]]

\* handleLoginComplete: if (resolveLogin) { resolveLogin(result); reset state }
handleLoginComplete(promise, all, result) ==
    IF promise = Undefined THEN [loginPromise |-> promise, promises |-> all]
    ELSE [loginPromise |-> Undefined,
          promises |-> [all EXCEPT ![promise[1]] = [status |-> "resolved", value |-> Some(result)]]]

InitLogin ==
    /\ ActionsUnused
    /\ NormalizeUnused
    /\ UpstreamUnused
    /\ ProvidersUnused
    /\ SessionUnused
    /\ eligibleRoles = Undefined
    /\ roleAssignments = Undefined
    /\ roleStatus = Undefined
    /\ roleStatusByAccount = Undefined
    /\ now = Instants[1]
    /\ resourceId = <<>>
    /\ parsed = Undefined
    /\ PortalUnused
    /\ TenantUnused
    /\ loginPromise = Undefined
    /\ promises = <<>>
    /\ logins = [c \in LoginCalls |-> NotCalled]

loginOtherVars ==
    <<eligibleRoles, roleAssignments, roleStatus, roleStatusByAccount, now, resourceId, parsed,
      portalVars, tenantVars, sessionVars, providerVars, upstreamVars, normalizeVars, actionVars>>

\* login() up to its first await: the shared promise is created if there is none
Login ==
    \E c \in LoginCalls :
        /\ logins[c].pc = "idle"
        /\ IF loginPromise = Undefined
           THEN /\ promises' = Append(promises, PendingPromise)
                /\ loginPromise' = Some(Len(promises) + 1)
           ELSE UNCHANGED <<promises, loginPromise>>
        /\ logins' = [logins EXCEPT ![c].pc = "awaitHandleRedirect"]
        /\ UNCHANGED loginOtherVars

\* await client.handleRedirectPromise() returns: acquireTokenRedirect is started and not
\* awaited, and login() returns loginPromise
HandleRedirectReturns ==
    \E c \in LoginCalls :
        /\ logins[c].pc = "awaitHandleRedirect"
        /\ logins' = [logins EXCEPT ![c] = [@ EXCEPT !.pc = "returned", !.returned = loginPromise,
                                                     !.flow = "acquireTokenRedirect"]]
        /\ UNCHANGED <<loginPromise, promises, loginOtherVars>>

\* await client.handleRedirectPromise() throws: catch, handleLoginError(err), and login()
\* returns loginPromise, which handleLoginError has just reset
HandleRedirectThrows ==
    \E c \in LoginCalls :
        LET after == handleLoginError(loginPromise, promises, HandleRedirectError)
        IN  /\ logins[c].pc = "awaitHandleRedirect"
            /\ loginPromise' = after.loginPromise
            /\ promises' = after.promises
            /\ logins' = [logins EXCEPT ![c] = [@ EXCEPT !.pc = "returned", !.returned = after.loginPromise,
                                                         !.failure = Some(HandleRedirectError)]]
            /\ UNCHANGED loginOtherVars

\* acquireTokenRedirect calls onRedirectNavigate(url): launchChromeWebAuthFlow(url) is started
OnRedirectNavigate ==
    \E c \in LoginCalls :
        /\ logins[c].flow = "acquireTokenRedirect"
        /\ logins' = [logins EXCEPT ![c].flow = "launchWebAuthFlow"]
        /\ UNCHANGED <<loginPromise, promises, loginOtherVars>>

\* acquireTokenRedirect rejects: .catch(err => { throw err }) rejects a promise nobody holds
AcquireTokenRedirectRejects ==
    \E c \in LoginCalls :
        /\ logins[c].flow = "acquireTokenRedirect"
        /\ logins' = [logins EXCEPT ![c] = [@ EXCEPT !.flow = "done", !.failure = Some(AcquireTokenError)]]
        /\ UNCHANGED <<loginPromise, promises, loginOtherVars>>

\* launchChromeWebAuthFlow resolves with the response hash: .then awaits handleRedirectPromise(hash)
WebAuthFlowReturns ==
    \E c \in LoginCalls :
        /\ logins[c].flow = "launchWebAuthFlow"
        /\ logins' = [logins EXCEPT ![c].flow = "handleResponse"]
        /\ UNCHANGED <<loginPromise, promises, loginOtherVars>>

\* launchChromeWebAuthFlow rejects: .catch awaits handleRedirectPromise() to clean up
WebAuthFlowFails ==
    \E c \in LoginCalls :
        /\ logins[c].flow = "launchWebAuthFlow"
        /\ logins' = [logins EXCEPT ![c] = [@ EXCEPT !.flow = "cleanup", !.failure = Some(WebAuthFlowError)]]
        /\ UNCHANGED <<loginPromise, promises, loginOtherVars>>

\* handleRedirectPromise(hash) returns the result: handleLoginComplete(response)
HandleResponseReturns ==
    \E c \in LoginCalls :
        LET after == handleLoginComplete(loginPromise, promises, AuthenticationResult)
        IN  /\ logins[c].flow = "handleResponse"
            /\ loginPromise' = after.loginPromise
            /\ promises' = after.promises
            /\ logins' = [logins EXCEPT ![c].flow = "done"]
            /\ UNCHANGED loginOtherVars

\* handleRedirectPromise(hash) rejects inside .then: the .catch takes it
HandleResponseRejects ==
    \E c \in LoginCalls :
        /\ logins[c].flow = "handleResponse"
        /\ logins' = [logins EXCEPT ![c] = [@ EXCEPT !.flow = "cleanup", !.failure = Some(HandleRedirectError)]]
        /\ UNCHANGED <<loginPromise, promises, loginOtherVars>>

\* the cleanup returns null: the msal keys are removed, and finally handleLoginError(err)
CleanupReturns ==
    \E c \in LoginCalls :
        LET after == handleLoginError(loginPromise, promises, logins[c].failure[1])
        IN  /\ logins[c].flow = "cleanup"
            /\ loginPromise' = after.loginPromise
            /\ promises' = after.promises
            /\ logins' = [logins EXCEPT ![c].flow = "done"]
            /\ UNCHANGED loginOtherVars

\* the cleanup throws or returns a result: handleLoginError(new Error(...)), and finally
\* handleLoginError(err), which finds the state reset
CleanupThrows ==
    \E c \in LoginCalls :
        LET first == handleLoginError(loginPromise, promises, RedirectCleanupError)
            after == handleLoginError(first.loginPromise, first.promises, logins[c].failure[1])
        IN  /\ logins[c].flow = "cleanup"
            /\ loginPromise' = after.loginPromise
            /\ promises' = after.promises
            /\ logins' = [logins EXCEPT ![c].flow = "done"]
            /\ UNCHANGED loginOtherVars

\* the steps that need no new call of login()
NextLoginStep ==
    \/ HandleRedirectReturns
    \/ HandleRedirectThrows
    \/ OnRedirectNavigate
    \/ AcquireTokenRedirectRejects
    \/ WebAuthFlowReturns
    \/ WebAuthFlowFails
    \/ HandleResponseReturns
    \/ HandleResponseRejects
    \/ CleanupReturns
    \/ CleanupThrows

NextLogin ==
    \/ Login
    \/ NextLoginStep

SpecLogin == InitLogin /\ [][NextLogin]_vars

\* every await of the module is answered and the web auth flow ends; nobody has to call login()
SpecLoginFair == SpecLogin /\ WF_vars(NextLoginStep)

\* ------------------------------------------------------------------ join rule, as the claims state it

\* arm: the assignment's link names the role's schedule; graph and group: same source, same triple
JoinRule(role, a) ==
    IF role.schedule.sourceType = "arm"
    THEN a.sourceType = "arm" /\ a.linkedRoleEligibilityScheduleInstanceId = <<role.schedule.id>>
    ELSE /\ a.sourceType = role.schedule.sourceType
         /\ <<a.roleDefinitionId, a.scope, a.principalId>> =
            <<role.schedule.roleDefinitionId, role.schedule.scope, role.schedule.principalId>>

Reconciled == eligibleRoles # <<>> /\ roleAssignments # <<>> /\ roleStatus # <<>>

RolesNow == {eligibleRoles[1][i] : i \in 1..Len(eligibleRoles[1])}

AssignmentsNow == {roleAssignments[1][i] : i \in 1..Len(roleAssignments[1])}

\* the positions of the assignments that satisfy the join rule for a role
Candidates(role) == {i \in 1..Len(roleAssignments[1]) : JoinRule(role, roleAssignments[1][i])}

\* what the lookup holds for a role
Entry(role) == IF role.id \in DOMAIN roleStatus[1] THEN roleStatus[1][role.id] ELSE <<>>

\* C1 (as stated): a role with more than one assignment satisfying the join rule gets no
\* current assignment in the lookup.
C1_AmbiguousIsAbsent ==
    Reconciled => \A role \in RolesNow : Cardinality(Candidates(role)) > 1 => Entry(role) = <<>>

\* C1 (amended): a role with more than one assignment satisfying the join rule gets the one that
\* comes first in the combined assignment list.
C1_AmbiguousIsFirst ==
    Reconciled =>
        \A role \in RolesNow :
            Cardinality(Candidates(role)) > 1 =>
                \E i \in Candidates(role) :
                    /\ \A j \in Candidates(role) : i <= j
                    /\ Entry(role) = <<roleAssignments[1][i]>>

C1_Witness ==
    /\ Reconciled
    /\ \E role \in RolesNow : Cardinality(Candidates(role)) > 1 /\ Entry(role) # <<>>

\* C2: for an arm role the lookup holds an assignment exactly when some arm assignment's link
\* equals the role's schedule id, and the assignment it holds is such an arm assignment; one
\* with another link or none is never the entry.
C2_ArmJoin ==
    Reconciled =>
        \A role \in RolesNow :
            role.schedule.sourceType = "arm" =>
                /\ Entry(role) # <<>> <=>
                       \E a \in AssignmentsNow :
                           /\ a.sourceType = "arm"
                           /\ a.linkedRoleEligibilityScheduleInstanceId = <<role.schedule.id>>
                /\ Entry(role) # <<>> =>
                       /\ Entry(role)[1] \in AssignmentsNow
                       /\ Entry(role)[1].sourceType = "arm"
                       /\ Entry(role)[1].linkedRoleEligibilityScheduleInstanceId = <<role.schedule.id>>

\* an arm role is matched while the list also holds an arm assignment with another link or none
C2_Witness ==
    /\ Reconciled
    /\ \E role \in RolesNow :
        /\ role.schedule.sourceType = "arm"
        /\ Entry(role) # <<>>
        /\ \E a \in AssignmentsNow :
            /\ a.sourceType = "arm"
            /\ a.linkedRoleEligibilityScheduleInstanceId # <<role.schedule.id>>

SameTriple(role, a) ==
    /\ a.roleDefinitionId = role.schedule.roleDefinitionId
    /\ a.scope = role.schedule.scope
    /\ a.principalId = role.schedule.principalId

ReconciledByAccount == eligibleRoles # <<>> /\ roleAssignments # <<>> /\ roleStatusByAccount # <<>>

\* C4 (as stated): the lookup holds one entry per eligible role, so no two distinct roles, two
\* roles of one account included, share an entry.
C4_OneEntryPerRole ==
    ReconciledByAccount => Cardinality(DOMAIN roleStatusByAccount[1]) = Cardinality(RolesNow)

\* ------------------------------------------------------------------ C5 .. C7

\* the status that counts as active for a source: Provisioned for arm, Activated or Active
\* for graph and group
ActiveStatuses(src) == IF src = "arm" THEN {"Provisioned"} ELSE {"Activated", "Active"}

\* the first assignment that satisfies the join rule for the role, if any
FirstCandidate(role) ==
    IF Candidates(role) = {} THEN <<>>
    ELSE <<roleAssignments[1][CHOOSE i \in Candidates(role) : \A j \in Candidates(role) : i <= j]>>

\* C5: isActivated(role) holds exactly when the lookup has been built, an assignment matches
\* the role, and the matched assignment's status is the active status of its source; it is
\* false for a role without a match.
C5_IsActivated ==
    (eligibleRoles # <<>> /\ roleAssignments # <<>>) =>
        \A role \in RolesNow :
            isEligibleRoleActivated(role) <=>
                /\ roleStatus # <<>>
                /\ FirstCandidate(role) # <<>>
                /\ FirstCandidate(role)[1].status \in ActiveStatuses(FirstCandidate(role)[1].sourceType)

\* roles with an active match, with an inactive match and without a match are all told apart
C5_Witness ==
    /\ Reconciled
    /\ \E role \in RolesNow : isEligibleRoleActivated(role) /\ role.schedule.sourceType = "graph"
    /\ \E role \in RolesNow : ~isEligibleRoleActivated(role) /\ FirstCandidate(role) # <<>>

\* C6 (as stated): a role reported as newly activated is activated.
C6_NewlyImpliesActivated ==
    (eligibleRoles # <<>> /\ roleAssignments # <<>>) =>
        \A role \in RolesNow : isEligibleRoleNewlyActivated(role) => isEligibleRoleActivated(role)

\* C7: for an activated role whose matched assignment has a start time, isNewlyActivated is true
\* 4m59s after the start and false 5m01s after it.
C7_FiveMinuteBoundary ==
    Reconciled =>
        \A role \in RolesNow :
            (isEligibleRoleActivated(role) /\ Entry(role)[1].startDateTime # <<>>) =>
                LET start == Entry(role)[1].startDateTime[1]
                IN  /\ now = start + 299 * 1000 => isEligibleRoleNewlyActivated(role)
                    /\ now = start + 301 * 1000 => ~isEligibleRoleNewlyActivated(role)

\* an activated role with a start time, read 5m01s after the start
C7_Witness ==
    /\ Reconciled
    /\ \E role \in RolesNow :
        /\ isEligibleRoleActivated(role)
        /\ Entry(role)[1].startDateTime # <<>>
        /\ now = Entry(role)[1].startDateTime[1] + 301 * 1000
        /\ ~isEligibleRoleNewlyActivated(role)

\* ------------------------------------------------------------------ C8 .. C10

ParsedOk == parsed # <<>> /\ ~parsed[1].threw

\* the forms that match the argument
MatchingForms == {i \in 1..Len(patterns) : regexMatches(patterns[i], resourceId)}

\* the scope strings of the grammar that agree with the decomposed fields of an identity, its
\* stored resourceId left unread; a child resource keeps no field for its child type
RebuiltScopes(v) ==
    CASE v.class = "TenantId" -> {<<"", "tenants", v.id>>}
      [] v.class = "ManagementGroupId" ->
            {<<"", "providers", "Microsoft.Management", "managementGroups", v.id>>}
      [] v.class = "SubscriptionId" -> {<<"", "subscriptions", v.id>>}
      [] v.class = "ResourceGroupId" -> {<<"", "subscriptions", v.subscription, "resourceGroups", v.id>>}
      [] v.class = "ResourceId" ->
            {<<"", "subscriptions", v.subscription, "resourceGroups", v.resourceGroup,
               "providers", v.provider, v.type, v.id>>}
      [] v.class = "ChildResourceId" ->
            {<<"", "subscriptions", v.subscription, "resourceGroups", v.resourceGroup,
               "providers", v.provider, v.type, v.parentResource, childType, v.id>> :
                childType \in Tokens \ {""}}

Reverse(seq) == [i \in 1..Len(seq) |-> seq[Len(seq) + 1 - i]]

\* C9: at most one of the six forms matches a string, and trying the forms in the opposite
\* order returns the same result.
C9_OneForm ==
    parsed # <<>> =>
        /\ Cardinality(MatchingForms) <= 1
        /\ parsed[1] = parseInOrder(Reverse(patterns), resourceId)

\* a resource group, whose string begins like a subscription's, parsed as a resource group only
C9_Witness ==
    /\ ParsedOk
    /\ parsed[1].value.class = "ResourceGroupId"
    /\ Cardinality(MatchingForms) = 1

\* C10 (as stated): a string that matches none of the six forms makes parseResourceId fail with
\* an error of the kind MalformedScope.
C10_MalformedScope ==
    (parsed # <<>> /\ MatchingForms = {}) =>
        parsed[1].threw /\ parsed[1].error.name = "MalformedScope"

\* C10 (amended): a string that matches none of the six forms makes parseResourceId throw a
\* plain Error whose message names the string as not a valid Azure Resource ID; no identity is
\* returned.
C10_PlainError ==
    (parsed # <<>> /\ MatchingForms = {}) =>
        /\ parsed[1].threw
        /\ parsed[1].error.name = "Error"
        /\ parsed[1].error.message[1] = resourceId

\* a resource id with resourcegroups in lower case has been refused
C10_Witness ==
    /\ parsed # <<>>
    /\ MatchingForms = {}
    /\ parsed[1].threw
    /\ Len(resourceId) = 5
    /\ resourceId[2] = "subscriptions"
    /\ resourceId[4] = "resourcegroups"

\* ------------------------------------------------------------------ portal URL claims

\* a valid scope that is not a management group, linked without the management-group route
NonManagementGroupScope ==
    /\ resourceId \in ValidScopes
    /\ ~regexMatches("ManagementGroup", resourceId)
    /\ scopeType # Some("managementgroup")

\* the URL read is the one getAzurePortalUrl built for the scope
ReadBuiltUrl == extracted # <<>> /\ portalUrl = Some(getAzurePortalUrl(resourceId, scopeType))

\* C11: for every valid scope that is not a management group,
\* getResourceIdFromPortalUrl(getAzurePortalUrl(scope)) returns exactly the scope
C11_PortalRoundTrip ==
    (ReadBuiltUrl /\ NonManagementGroupScope) => extracted[1] = Returned(resourceId)

\* the path the expression extracts from the URL read, and that path less its last segment
ExtractedPath == resourceIdMatch(hash(portalUrl[1]))[1]

TrimmedPath == SubSeq(ExtractedPath, 1, Len(ExtractedPath) - 1)

\* the URL read is a portal URL whose extracted path does not parse
ReadUnparsedPath ==
    /\ extracted # <<>>
    /\ isUrl(portalUrl[1])
    /\ hostname(portalUrl[1]) = "portal.azure.com"
    /\ resourceIdMatch(hash(portalUrl[1])) # <<>>
    /\ parseResourceId(ExtractedPath).threw

\* C12: when the path extracted after the resource marker does not parse as a scope and the
\* path less its last segment does, getResourceIdFromPortalUrl returns the trimmed path
C12_RetryTrimmedPath ==
    (ReadUnparsedPath /\ ~parseResourceId(TrimmedPath).threw) => extracted[1] = Returned(TrimmedPath)

\* a URL has been read and the read failed
ReadFailed == extracted # <<>> /\ extracted[1].threw

WrongHost == isUrl(portalUrl[1]) /\ hostname(portalUrl[1]) # "portal.azure.com"

RightHost == isUrl(portalUrl[1]) /\ hostname(portalUrl[1]) = "portal.azure.com"

\* C13 as stated: the failure on a foreign host is a NotAzurePortalHost and the failure on the
\* portal host is an UnrecognizedPortalUrl
C13_PortalErrorKinds ==
    ReadFailed =>
        /\ WrongHost => extracted[1].error.name = "NotAzurePortalHost"
        /\ RightHost => extracted[1].error.name = "UnrecognizedPortalUrl"

\* C13: every failure of getResourceIdFromPortalUrl is a plain Error whose message is
\* "Invalid Azure portal URL <url>: <cause>"; the cause says that the URL does not begin with
\* portal.azure.com exactly when the host is a foreign one, so the message text is what tells
\* a foreign host from a portal URL that holds no scope
C13_PortalErrorMessages ==
    ReadFailed =>
        /\ extracted[1].error.name = "Error"
        /\ extracted[1].error.message[1] = "Invalid Azure portal URL "
        /\ extracted[1].error.message[2] = portalUrl[1]
        /\ WrongHost <=> extracted[1].error.message[4] = <<"Does not begin with portal.azure.com">>
        /\ RightHost =>
              extracted[1].error.message[4] \in
                  {<<"Could not extract base resource ID from url">>, NotValidError(<<"">>).message}

\* a URL on a foreign host has been read, and the read failed
C13_Witness == ReadFailed /\ WrongHost

\* ------------------------------------------------------------------ tenant resolution claims

AccountOf(r) == resolution[r].role.accountId

ScopeOf(r) == resolution[r].role.schedule[1].scope

IsArm(r) == resolution[r].role.schedule # <<>> /\ resolution[r].role.schedule[1].sourceType = "arm"

Finished(r) == resolution[r].pc = "done"

Issued(r) == {resolution[r].issued[i] : i \in 1..Len(resolution[r].issued)}

\* an ARM role whose scope is a subscription, or a resource group, resource or child resource
\* of one: the scope's third piece is the subscription id
SubscriptionRooted(r) ==
    /\ IsArm(r)
    /\ \E form \in {"Subscription", "ResourceGroup", "Resource", "ChildResource"} :
            regexMatches(form, ScopeOf(r))

ListedSubscriptions(a) ==
    {RemoteSubscriptions[a][i].subscriptionId : i \in 1..Len(RemoteSubscriptions[a])}

\* C14 as stated: a resolution for a subscription-rooted scope whose subscription is not in
\* the account's subscription list fails with the subscription-not-found error type, so the
\* component shows its subscription-not-found text
C14_SubscriptionNotFoundType ==
    \A r \in Resolvers :
        (Finished(r) /\ SubscriptionRooted(r) /\ ScopeOf(r)[3] \notin ListedSubscriptions(AccountOf(r))) =>
            /\ resolution[r].result[1].threw
            /\ resolution[r].result[1].error.name = "FetchTenantSubscriptionNotFoundError"
            /\ renderError(resolution[r].result[1].error) = <<"Subscription Not Found">>

\* the tenant lookup the account's tenants query holds
TenantCache(a) == heap[tenantsQuery[a][1]]

\* C15 as stated: a resolution for a resource-group scope whose subscription is listed and
\* whose tenant was found in the tenant cache returns the cached record and has issued no
\* remote call
C15_CachedTenantNoCalls ==
    \A r \in Resolvers :
        (/\ Finished(r)
         /\ IsArm(r)
         /\ regexMatches("ResourceGroup", ScopeOf(r))
         /\ ScopeOf(r)[3] \in ListedSubscriptions(AccountOf(r))
         /\ "findTenantInformation" \notin Issued(r)) =>
            /\ resolution[r].result[1] = Returned(TenantCache(AccountOf(r))[resolution[r].tenantId[1]][1])
            /\ resolution[r].issued = <<>>

\* no scope, a directory or group role, or an ARM role on "/", on a tenant or under
\* /administrativeUnits/
HomeTenantRole(r) ==
    \/ resolution[r].role.schedule = <<>>
    \/ resolution[r].role.schedule[1].sourceType \in {"graph", "group"}
    \/ ScopeOf(r) = <<"", "">>
    \/ regexMatches("Tenant", ScopeOf(r))
    \/ (Len(ScopeOf(r)) >= 3 /\ ScopeOf(r)[1] = "" /\ ScopeOf(r)[2] = "administrativeUnits")

ManagementGroupScoped(r) == IsArm(r) /\ regexMatches("ManagementGroup", ScopeOf(r))

\* C17: a resolution for a management-group scope asks for that management group exactly
\* once, never for the subscription list, and takes the tenant id of the group as the tenant
\* id; a group without a tenant id ends the resolution with an error
C17_ManagementGroupLookup ==
    \A r \in Resolvers :
        (resolution[r].pc # "idle" /\ ManagementGroupScoped(r)) =>
            /\ Cardinality({i \in 1..Len(resolution[r].issued) :
                                resolution[r].issued[i] = "managementGroups.get"}) = 1
            /\ resolution[r].issued[1] = "managementGroups.get"
            /\ "subscriptions.list" \notin Issued(r)
            /\ resolution[r].pc # "awaitManagementGroup" =>
                  IF RemoteManagementGroups[ScopeOf(r)[5]].tenantId = <<>>
                  THEN Finished(r) /\ resolution[r].result[1].threw
                  ELSE resolution[r].tenantId = RemoteManagementGroups[ScopeOf(r)[5]].tenantId

\* a resolution for management group a has ended with the tenant of the group
C17_Witness ==
    \E r \in Resolvers :
        /\ Finished(r)
        /\ ManagementGroupScoped(r)
        /\ resolution[r].tenantId = Some("T1")
        /\ ~resolution[r].result[1].threw
        /\ resolution[r].result[1].value.tenantId = "T1"

\* both resolutions ran for the same account and tenant, and each fetched the tenant itself
BothFetched ==
    /\ Finished("r1") /\ Finished("r2")
    /\ AccountOf("r1") = AccountOf("r2")
    /\ resolution["r1"].tenantId = resolution["r2"].tenantId
    /\ resolution["r1"].fetched # <<>>
    /\ resolution["r2"].fetched # <<>>

\* C18 as stated: after two concurrent resolutions of one tenant that was not in the cache,
\* each has returned the record it fetched and the cache holds the record of one of them
C18_OwnRecordLastWriter ==
    BothFetched =>
        /\ \A r \in Resolvers : resolution[r].result[1] = Returned(resolution[r].fetched[1])
        /\ TenantCache(AccountOf("r1"))[resolution["r1"].tenantId[1]]
                \in {resolution["r1"].fetched, resolution["r2"].fetched}

\* the tenant ids with an entry in the lookup that the query q of account a refers to in h
CachedTenants(q, h, a) == IF q[a] = <<>> THEN {} ELSE {t \in TenantIds : h[q[a][1]][t] # <<>>}

\* C19 as stated: no step removes a tenant id from the tenant cache of an account
C19_NeverEvicted ==
    [][\A a \in Accounts : CachedTenants(tenantsQuery, heap, a) \subseteq CachedTenants(tenantsQuery', heap', a)]_vars

\* C20 as stated: the subscription list of an account is fetched from the directory at most
\* once
C20_SubscriptionsFetchedOnce == \A a \in Accounts : calls[a]["subscriptions.list"] <= 1

\* ------------------------------------------------------------------ session claims

\* C21 as stated: the subscription-list cache and the tenant cache hold no entry for an
\* account that has signed out
C21_ClearedOnSignOut ==
    \A a \in Accounts :
        (a \notin signedIn /\ ~\E c \in inflight : c.account = a) =>
            subscriptionCache[a] = <<>> /\ tenantCache[a] = <<>>

\* what the call would have got had it been made on a fresh module for its own account
OwnValue(answer) ==
    IF answer.fn = "getPimClient" THEN NewPimClient(answer.account)
    ELSE RemoteList(answer.fn, answer.account)

\* C22 as stated: what a call made for one account gets back was created for that account
C22_KeyedByAccount == served # <<>> => served[1].value = OwnValue(served[1])

\* the same statement for the lists alone
C22_ListsKeyedByAccount ==
    (served # <<>> /\ served[1].fn \in ListFunctions) => served[1].value = OwnValue(served[1])

\* ------------------------------------------------------------------ provider failure claims

\* every provider query has settled and no combined query or reconcile is left to run
ProvidersQuiescent ==
    /\ \A src \in SourceTypes :
            eligibleRolesQueries[src].status # "pending" /\ roleAssignmentsQueries[src].status # "pending"
    /\ ~ENABLED CombineEligibleRoles
    /\ ~ENABLED CombineRoleAssignments
    /\ ~ENABLED ReconcileCombined

\* exactly one provider's query of the family failed, the other two succeeded
OneFailed(queries) == Cardinality({src \in SourceTypes : queries[src].status = "error"}) = 1

NoneFailed(queries) == \A src \in SourceTypes : isSuccess(queries[src])

\* C23 as stated: with one provider failed and the other two successful, the combined eligible
\* roles and the role-status lookup are produced from the two successful providers
C23_PartialFailureTolerated ==
    (/\ ProvidersQuiescent
     /\ OneFailed(eligibleRolesQueries)
     /\ NoneFailed(roleAssignmentsQueries)) =>
        /\ eligibleRoles = Some(combine(eligibleRolesQueries))
        /\ roleStatus = Some(roleToStatusLookup(combine(eligibleRolesQueries), combine(roleAssignmentsQueries)))

\* the same for a failed assignment provider
C23_PartialAssignmentFailureTolerated ==
    (/\ ProvidersQuiescent
     /\ NoneFailed(eligibleRolesQueries)
     /\ OneFailed(roleAssignmentsQueries)) =>
        /\ roleAssignments = Some(combine(roleAssignmentsQueries))
        /\ roleStatus = Some(roleToStatusLookup(combine(eligibleRolesQueries), combine(roleAssignmentsQueries)))

\* ------------------------------------------------------------------ upstream failure claims

\* the failure a data source raised in resolution r, if any
RaisedIn(r) == {raised[i].error : i \in {j \in 1..Len(raised) : raised[j].resolver = r}}

\* C24 as stated: a failure raised by a data source during a resolution is what the resolution
\* ends with
C24_UpstreamFailureUnmodified ==
    \A r \in Resolvers : \A error \in RaisedIn(r) :
        resolution[r].pc = "done" => resolution[r].result = Some(Threw(error))

\* the part of it that holds: a failure of the subscription list or of the management group
\* lookup is what the resolution ends with
C24_TenantIdFailureUnmodified ==
    \A r \in Resolvers : \A error \in RaisedIn(r) :
        (resolution[r].pc = "done" /\ "findTenantInformation" \notin {resolution[r].issued[i] : i \in 1..Len(resolution[r].issued)}) =>
            resolution[r].result = Some(Threw(error))

\* ------------------------------------------------------------------ normalizer claims

\* the provider's name of the role definition id: accessId for a group, roleDefinitionId otherwise
ProvidedRoleDefinitionId(record) ==
    IF "accessId" \in DOMAIN record THEN record.accessId ELSE record.roleDefinitionId

MissingMandatoryId(record) ==
    ProvidedRoleDefinitionId(record) = Undefined \/ record.principalId = Undefined

IncompleteProviderRecord == [name |-> "IncompleteProviderRecord"]

\* C25 as stated: a record without role definition id or principal id is refused with
\* IncompleteProviderRecord
C25_IncompleteRecordRefused ==
    (normalized # Undefined /\ MissingMandatoryId(providerRecord[1].record)) =>
        /\ normalized[1].threw
        /\ normalized[1].error.name = IncompleteProviderRecord.name

\* the provider's display names of the role and of the scope are both there
HasDisplayNames(record) ==
    IF "groupDisplayName" \in DOMAIN record THEN record.groupDisplayName # Undefined
    ELSE /\ record.roleDefinitionDisplayName # Undefined
         /\ IF "directoryScopeId" \in DOMAIN record THEN record.directoryScopeId # Undefined
            ELSE record.scopeDisplayName # Undefined

Sentinels == {"Unknown Role", "Unknown Scope", "Unknown Group"}

\* C26 as stated: whatever the record lacks, the output's role and scope display names are
\* defined
C26_DisplayNamesDefaulted ==
    normalized # Undefined =>
        /\ ~normalized[1].threw
        /\ normalized[1].value.roleDefinitionDisplayName # Undefined
        /\ normalized[1].value.scopeDisplayName # Undefined

\* the part of it that holds: the schedule normalizers and the group assignment normalizer
C26_ScheduleDisplayNamesDefaulted ==
    (normalized # Undefined
        /\ providerRecord[1].fn \in {"armScheduleToCommon", "graphScheduleToCommon", "fromGroupAssignment"}) =>
        /\ ~normalized[1].threw
        /\ normalized[1].value.roleDefinitionDisplayName # Undefined
        /\ normalized[1].value.scopeDisplayName # Undefined

\* ------------------------------------------------------------------ rebuild claims

\* C27: a lookup that isEligibleRoleActivated and isEligibleRoleNewlyActivated can read is the
\* reconcile of the eligible roles and the assignments the queries hold now, all of it: after
\* a refetch of either there is no lookup until it has been built again from the new pair
C27_LookupOfCurrentPair ==
    roleStatus # Undefined =>
        /\ eligibleRoles # Undefined
        /\ roleAssignments # Undefined
        /\ roleStatus[1] = roleToStatusLookup(eligibleRoles[1], roleAssignments[1])

\* the assignments have been refetched (the first instance is gone), the lookup has been built
\* again, and a role that had a match before has one still
C27_Witness ==
    /\ roleStatus # Undefined
    /\ roleAssignments # Undefined
    /\ Len(roleAssignments[1]) = 1
    /\ roleAssignments[1][1].id = 2
    /\ \E k \in DOMAIN roleStatus[1] : roleStatus[1][k] = Some(roleAssignments[1][1])

\* ------------------------------------------------------------------ deactivation claims

\* C28 as stated: the request posted for a group role names the role's group and access level:
\* groupId is the role's scope and accessId the role's roleDefinitionId
C28_GroupRequestTargetsRole ==
    \A i \in 1..Len(posted) :
        /\ posted[i].body.groupId = posted[i].role.schedule.scope
        /\ posted[i].body.accessId = posted[i].role.schedule.roleDefinitionId

\* the clicks that handed their role to the deactivation mutation
Deactivations == {i \in 1..Len(sent) : sent[i].did = "deactivate"}

Settled(c) ==
    /\ logins[c].pc = "returned"
    /\ logins[c].returned # Undefined => promises[logins[c].returned[1]].status # "pending"

\* C30 as stated: every call of login() is settled at some later time
C30_LoginSettles == \A c \in LoginCalls : (logins[c].pc # "idle") ~> Settled(c)

\* the same as a state predicate: while a call is not settled, some step of the module or of
\* the web auth flow is still to come
C30_NoLoginLeftPending ==
    \A c \in LoginCalls : (logins[c].pc # "idle" /\ ~Settled(c)) => ENABLED NextLoginStep

\* the part of it that holds: once the web auth flow has been launched for a call, the promise
\* the call returned is settled when the flow is done
C30_LaunchedFlowSettles ==
    \A c \in LoginCalls :
        (logins[c].flow = "done" /\ logins[c].failure # Some(AcquireTokenError)) => Settled(c)
====
